---------------------------- MODULE Spec2Model ----------------------------
(***************************************************************************)
(* Model of the sauceLab end-to-end suite: the page objects (LoginPage,    *)
(* InventoryPage, CartPage, CheckoutStepOnePage, CheckoutStepTwoPage,      *)
(* CheckoutCompletePage), the checkout suite's beforeEach hook and test    *)
(* bodies, and the login suite's negative test.  The remote application    *)
(* and the automation engine are the environment: their behaviour is       *)
(* stated by the operators of the two "environment" sections below.        *)
(*                                                                         *)
(* A worker w runs one test at a time on a page handle of its own.  Every  *)
(* awaited engine call is one action; proc[w].pc is the position of the    *)
(* test's single thread of control.                                        *)
(***************************************************************************)
EXTENDS Integers, Sequences, FiniteSets, TLC

\* ------------------------------------------------------------------ bounds
MaxProducts == 4      \* products the inventory screen may display
MaxCount == 3         \* largest count passed to addRandomProductsToCart
MaxTests == 2         \* tests one run of the suite executes, over all workers
MaxFaults == 1        \* engine calls that time out although their element is there
MaxProbes == 2        \* consecutive state probes recorded
ParProducts == 3      \* products displayed while two workers run side by side
MaxLabelLen == 4      \* characters of a summary label drawn at will
MaxElapsed == 12000   \* milliseconds a pending wait is followed for

Workers == {1, 2}

\* the step of the clock, in milliseconds
TickMs == 1000

\* ------------------------------------------------------------ small helpers
Range(s) == {s[x] : x \in DOMAIN s}

RemoveAt(s, pos) == [x \in 1..(Len(s) - 1) |-> IF x < pos THEN s[x] ELSE s[x + 1]]

Last(s) == s[Len(s)]

\* ------------------------------------------- environment: remote application
\* The inventory screen lists the products 0..n-1 in this order.  A product's
\* name is a string of characters, its buttons carry the data-test attributes
\* add-to-cart-<slug> and remove-<slug>.
ProductName(p) == <<"I", "t", " ">> \o [x \in 1..(p + 1) |-> "B"]

ProductSlug(p) == <<"i", "t", "-">> \o [x \in 1..(p + 1) |-> "b"]

ProductPrice(p) == 999 + (1000 * p)

\* What the cart link, the checkout button, the continue button and the finish
\* button lead to, and what the cart and the badge show.  The cart belongs to
\* the authenticated session, which every page handle of the run shares.
ShopScreens == {"inventory", "cart", "step1", "step2", "complete"}

\* ------------------------------------------------------------------- state
VARIABLES
  nProducts,   \* number of products the inventory screen displays
  authFile,    \* the storage state the authentication setup has written, if any
  cart,        \* the session's cart: product indices in the order they were added
  page,        \* page[w]: the browser page of worker w (url and rendered form state)
  proc,        \* proc[w]: position and locals of the test worker w is running
  log,         \* log[w]: history of the running test (what was called, raised, drawn)
  overlap,     \* overlap[w]: another worker's test ran during w's current test
  testsRun,    \* tests started so far
  faults,      \* engine time-outs still to be injected
  workers,     \* the workers the run was started with
  probes,      \* probes[w]: the state probes w called since its last other step
  fixture,     \* what the fixture helper called last has returned
  shop         \* the build of the remote application the run is served

vars == <<nProducts, authFile, cart, page, proc, log, overlap, testsRun, faults, workers, probes,
          fixture, shop>>

\* environment: the shop as spec.md describes it: its pages are titled "Swag
\* Labs", its login compares the username as typed, and rejected credentials
\* leave the browser on the login page
DefaultShop == [title |-> "Swag Labs", trims |-> FALSE, rejectsTo |-> "login"]

\* environment: the builds the tests may meet: another document title, a
\* login that trims the username, and one that answers rejected credentials
\* with the login form at a URL naming the page asked for
Shops == [title : {"Swag Labs", "Sauce Labs"}, trims : BOOLEAN,
          rejectsTo : {"login", "relogin"}]

\* the screens that show the login form
LoginScreens == {"login", "relogin"}

NoError == [kind |-> "none", at |-> "none"]

\* no fixture helper has been called
NoCall == [helper |-> "none", draws |-> <<>>, returned |-> <<>>]

\* no file at playwright/.auth/user.json
NoAuthFile == [written |-> FALSE, authenticated |-> FALSE]

NoDetails == [name |-> <<>>, price |-> 0]

\* the three summary labels of the overview screen, as texts
NoLabels == [subtotal |-> <<>>, tax |-> <<>>, total |-> <<>>]

\* a number read from a text: mant / 10^scale
Zero == [mant |-> 0, scale |-> 0]

NoSummary == [subtotal |-> Zero, tax |-> Zero, total |-> Zero]

\* navigating: the screen a navigation that has started and not yet committed
\* leads to
BlankPage == [url |-> "about:blank", error |-> <<>>, username |-> "", password |-> "",
              firstName |-> "", lastName |-> "", postalCode |-> "", labels |-> NoLabels,
              navigating |-> "none"]

\* what a test read of an item list: how many entries, and their names
NoItems == [count |-> -1, names |-> <<>>]

\* let pm: PageManager, before beforeEach has assigned it
NoPageManager == [page |-> 0]

IdleProc == [pc |-> "idle", phase |-> "none", test |-> "none", count |-> 0, totalProducts |-> 0,
             indices |-> <<>>, j |-> 0, details |-> NoDetails, added |-> <<>>,
             itemsInCart |-> 0, i |-> 0, cartCount |-> -1, error |-> NoError,
             stmt |-> 0, received |-> <<>>, summary |-> NoSummary,
             psCaller |-> "none", correct |-> "none",
             seenCart |-> NoItems, seenOrder |-> NoItems,
             elapsed |-> 0, timeout |-> 0, pm |-> NoPageManager]

EmptyLog == [composite |-> "none", outcome |-> "none", steps |-> <<>>,
             raised |-> NoError, events |-> <<>>, drawn |-> FALSE,
             cartAtCall |-> <<>>, faulted |-> FALSE, asserted |-> <<>>]

\* ------------------------------------------- environment: remote application
ProductsShown(w) == IF page[w].url = "inventory" THEN 0..(nProducts - 1) ELSE {}

\* an inventory item shows its add button until it is in the cart
AddButtonAttr(p) == <<"add-to-cart-">> \o ProductSlug(p)

AddButtonMatches(w, selector) ==
  {p \in ProductsShown(w) : p \notin Range(cart) /\ AddButtonAttr(p) = selector}

\* the cart screen shows one .cart_item, with its remove button, per cart entry
CartItemsShown(w) == IF page[w].url = "cart" THEN cart ELSE <<>>

\* the badge is rendered on the shop screens while the cart holds something
BadgePresent(w) == page[w].url \in ShopScreens /\ Len(cart) > 0

BadgeText(w) == Len(cart)

\* ------------------------------------------- environment: automation engine
\* A navigation, a click or a fill waits until its locator resolves to one
\* actionable element: it times out when nothing matches, is refused when
\* several match, and may time out although its one target is there.  A read
\* of a rendered element does not wait.
EngineOutcomes(n) ==
  IF n = 0 THEN {"absent"}
  ELSE IF n > 1 THEN {"strict"}
  ELSE IF faults > 0 THEN {"ok", "timeout"} ELSE {"ok"}

\* a read of text waits for its element and times out when nothing matches
ReadOutcomes(n) == IF n = 0 THEN {"absent"} ELSE {"ok"}

ErrorKind(r) == IF r = "strict" THEN "StrictModeError" ELSE "TimeoutError"

Spend(r) == faults' = IF r = "timeout" THEN faults - 1 ELSE faults

\* --------------------------------------------------------- async functions
\* An awaited call that rejects inside an async function without try/catch
\* rejects the function's own promise with the same error.
Throw(w, kind, at) ==
  [proc EXCEPT ![w].pc = "failed", ![w].error = [kind |-> kind, at |-> at]]

\* history: step `at` of the running composite was started
Did(l, at) ==
  [l EXCEPT !.steps = IF l.outcome = "running" THEN Append(@, at) ELSE @]

\* history: the step raised
Raised(l, kind, at, r) ==
  [l EXCEPT !.raised = [kind |-> kind, at |-> at],
            !.faulted = @ \/ (r = "timeout")]

\* history: the running composite's promise was rejected
Rejected(l) == [l EXCEPT !.outcome = IF @ = "running" THEN "threw" ELSE @]

\* history: a composite was entered / returned normally
Enter(l, name) ==
  [l EXCEPT !.composite = name, !.outcome = "running", !.steps = <<>>,
            !.raised = NoError]

Return(l) == [l EXCEPT !.outcome = "returned"]

\* every step of w other than a probe: it is seen by the tests running beside
\* it, and it ends w's run of consecutive probes
Interleave(w) ==
  /\ overlap' = [v \in Workers |->
                   IF v # w /\ proc[v].pc # "idle" THEN TRUE ELSE overlap[v]]
  /\ probes' = [probes EXCEPT ![w] = <<>>]

\* the awaited step `at` rejected with outcome r: the caller gets that error
FailFrom(w, l, r, at) ==
  /\ proc' = Throw(w, ErrorKind(r), at)
  /\ log' = [log EXCEPT ![w] = Rejected(Raised(Did(l, at), ErrorKind(r), at, r))]

Fail(w, r, at) == FailFrom(w, log[w], r, at)

Navigate(url) == [BlankPage EXCEPT !.url = url]

\* ------------------------------------------------- page objects: selectors
toLowerCase(c) ==
  CASE c = "I" -> "i"
    [] c = "B" -> "b"
    [] c = "T" -> "t"
    [] c = "S" -> "s"
    [] OTHER -> c

IsSpace(c) == c \in {" ", "\t"}

RECURSIVE SkipSpaces(_)
SkipSpaces(s) ==
  IF s = <<>> THEN <<>>
  ELSE IF IsSpace(Head(s)) THEN SkipSpaces(Tail(s)) ELSE s

\* replace(/\s+/g, '-'): every run of whitespace becomes one hyphen
RECURSIVE ReplaceSpaceRuns(_)
ReplaceSpaceRuns(s) ==
  IF s = <<>> THEN <<>>
  ELSE IF IsSpace(Head(s)) THEN <<"-">> \o ReplaceSpaceRuns(SkipSpaces(s))
  ELSE <<Head(s)>> \o ReplaceSpaceRuns(Tail(s))

KebabCase(name) == ReplaceSpaceRuns([x \in DOMAIN name |-> toLowerCase(name[x])])

AddSelector(name) == <<"add-to-cart-">> \o KebabCase(name)

\* ------------------------------------------- checkout suite: test.beforeEach
CheckoutTests == {"complete3", "consistency", "prices", "successfully"}

itemCountToSelect == 3

\* the counts the test passes to addRandomProductsToCart
Counts == IF workers = {1} THEN 0..MaxCount ELSE {itemCountToSelect}

\* the locators a page object's constructor makes, by field: page.locator(selector)
Locators(class) ==
  CASE class = "LoginPage" ->
         [usernameInput |-> "[data-test=\"username\"]",
          passwordInput |-> "[data-test=\"password\"]",
          loginButton |-> "[data-test=\"login-button\"]",
          errorMessageContainer |-> "[data-test=\"error\"]",
          logoImage |-> ".login_logo"]
    [] class = "InventoryPage" ->
         [pageTitle |-> ".title",
          productCards |-> ".inventory_item",
          productNames |-> ".inventory_item_name",
          productPrices |-> ".inventory_item_price",
          addToCartButtons |-> "button[data-test^=\"add-to-cart\"]",
          shoppingCartBadge |-> ".shopping_cart_badge",
          shoppingCartLink |-> ".shopping_cart_link"]
    [] class = "CartPage" ->
         [pageTitle |-> ".title",
          cartItems |-> ".cart_item",
          cartItemNames |-> ".inventory_item_name",
          cartItemPrices |-> ".inventory_item_price",
          cartItemQuantities |-> ".cart_quantity",
          removeButtons |-> "button[data-test^=\"remove\"]",
          continueShoppingButton |-> "[data-test=\"continue-shopping\"]",
          checkoutButton |-> "[data-test=\"checkout\"]",
          shoppingCartBadge |-> ".shopping_cart_badge"]
    [] class = "CheckoutStepOnePage" ->
         [pageTitle |-> ".title",
          firstNameInput |-> "[data-test=\"firstName\"]",
          lastNameInput |-> "[data-test=\"lastName\"]",
          postalCodeInput |-> "[data-test=\"postalCode\"]",
          continueButton |-> "[data-test=\"continue\"]"]
    [] class = "CheckoutStepTwoPage" ->
         [pageTitle |-> ".title",
          cartItems |-> ".cart_item",
          cartItemNames |-> ".inventory_item_name",
          cartItemPrices |-> ".inventory_item_price",
          cartItemQuantities |-> ".cart_quantity",
          paymentInformation |-> "[data-test=\"payment-info-value\"]",
          shippingInformation |-> "[data-test=\"shipping-info-value\"]",
          subtotalLabel |-> ".summary_subtotal_label",
          taxLabel |-> ".summary_tax_label",
          totalLabel |-> ".summary_total_label",
          finishButton |-> "[data-test=\"finish\"]",
          cancelButton |-> "[data-test=\"cancel\"]"]
    [] OTHER ->
         [pageTitle |-> ".title",
          completeHeader |-> ".complete-header",
          completeText |-> ".complete-text",
          ponyExpressImage |-> ".pony_express",
          backHomeButton |-> "[data-test=\"back-to-products\"]"]

\* the constructor of a page object: this.page = page, then one locator per
\* field, made from it
NewPageObject(class, handle) ==
  [class |-> class, page |-> handle, locators |-> Locators(class)]

\* a PageManager whose inventoryPage is a second CartPage, on a page of its own
PageManager_twoCarts(handle) ==
  [page |-> handle,
   loginPage |-> NewPageObject("LoginPage", handle),
   inventoryPage |-> NewPageObject("CartPage", handle + 1),
   cartPage |-> NewPageObject("CartPage", handle),
   checkoutStepOnePage |-> NewPageObject("CheckoutStepOnePage", handle),
   checkoutStepTwoPage |-> NewPageObject("CheckoutStepTwoPage", handle),
   checkoutCompletePage |-> NewPageObject("CheckoutCompletePage", handle)]

\* new PageManager(page): this.page = page, then one new page object per field,
\* each given this.page
PageManager(handle) ==
  [page |-> handle,
   loginPage |-> NewPageObject("LoginPage", handle),
   inventoryPage |-> NewPageObject("InventoryPage", handle),
   cartPage |-> NewPageObject("CartPage", handle),
   checkoutStepOnePage |-> NewPageObject("CheckoutStepOnePage", handle),
   checkoutStepTwoPage |-> NewPageObject("CheckoutStepTwoPage", handle),
   checkoutCompletePage |-> NewPageObject("CheckoutCompletePage", handle)]

\* pm = new PageManager(page): a fresh page handle (page[w] is the page of worker
\* w's test), the session's cart as it is
beforeEach_newPageManager(w) ==
  /\ w \in workers
  /\ proc[w].pc = "idle"
  /\ testsRun < MaxTests
  /\ \E t \in CheckoutTests, k \in Counts :
       proc' = [proc EXCEPT ![w] = [IdleProc EXCEPT !.pc = "be_open",
                                      !.phase = "beforeEach", !.test = t, !.count = k,
                                      !.pm = PageManager(w)]]
  /\ page' = [page EXCEPT ![w] = BlankPage]
  /\ log' = [log EXCEPT ![w] = EmptyLog]
  /\ testsRun' = testsRun + 1
  /\ overlap' = [v \in Workers |->
                   IF v = w THEN \E u \in Workers \ {w} : proc[u].pc # "idle"
                   ELSE IF proc[v].pc # "idle" THEN TRUE ELSE overlap[v]]
  /\ probes' = [probes EXCEPT ![w] = <<>>]
  /\ UNCHANGED <<nProducts, shop, fixture, authFile, cart, faults, workers>>

\* await pm.inventoryPage.open(), before and after the cleanup
beforeEach_open(w) ==
  /\ proc[w].pc \in {"be_open", "be_reopen"}
  /\ \E r \in EngineOutcomes(1) :
       /\ Spend(r)
       /\ IF r = "ok"
          THEN /\ page' = [page EXCEPT ![w] = Navigate("inventory")]
               /\ proc' = [proc EXCEPT
                             ![w].pc = IF proc[w].pc = "be_open" THEN "be_goToCart" ELSE "test",
                             ![w].phase = IF proc[w].pc = "be_open" THEN "beforeEach" ELSE "test"]
               /\ log' = log
          ELSE /\ page' = page
               /\ Fail(w, r, "open")
  /\ UNCHANGED <<nProducts, shop, fixture, authFile, cart, testsRun, workers>>
  /\ Interleave(w)

\* await pm.inventoryPage.goToCart()
beforeEach_goToCart(w) ==
  /\ proc[w].pc = "be_goToCart"
  /\ \E r \in EngineOutcomes(IF page[w].url \in ShopScreens THEN 1 ELSE 0) :
       /\ Spend(r)
       /\ IF r = "ok"
          THEN /\ page' = [page EXCEPT ![w] = Navigate("cart")]
               /\ proc' = [proc EXCEPT ![w].pc = "be_waitForURL"]
               /\ log' = log
          ELSE /\ page' = page
               /\ Fail(w, r, "goToCart")
  /\ UNCHANGED <<nProducts, shop, fixture, authFile, cart, testsRun, workers>>
  /\ Interleave(w)

\* await page.waitForURL(/.*cart.html/)
beforeEach_waitForURL(w) ==
  /\ proc[w].pc = "be_waitForURL"
  /\ \E r \in EngineOutcomes(IF page[w].url = "cart" THEN 1 ELSE 0) :
       /\ Spend(r)
       /\ IF r = "ok"
          THEN /\ proc' = [proc EXCEPT ![w].pc = "be_getCartItemCount"]
               /\ log' = log
          ELSE Fail(w, r, "waitForURL")
  /\ UNCHANGED <<nProducts, shop, fixture, authFile, cart, page, testsRun, workers>>
  /\ Interleave(w)

\* a count that sees no item
getCartItemCount_none(w) == 0

\* CartPage.getCartItemCount: this.cartItems.count()
getCartItemCount(w) == Len(CartItemsShown(w))

\* a count that keeps the narrowed locator: this.cartItems = this.cartItems.first()
beforeEach_getCartItemCount_narrowing(w) ==
  /\ proc[w].pc = "be_getCartItemCount"
  /\ proc' = [proc EXCEPT ![w].pc = "be_remove", ![w].itemsInCart = getCartItemCount(w),
                          ![w].i = 0,
                          ![w].pm.cartPage.locators.cartItems = ".cart_item >> nth=0"]
  /\ UNCHANGED <<nProducts, shop, fixture, authFile, cart, page, log, testsRun, faults, workers>>
  /\ Interleave(w)

\* const itemsInCart = await pm.cartPage.getCartItemCount(); let i = 0
beforeEach_getCartItemCount(w) ==
  /\ proc[w].pc = "be_getCartItemCount"
  /\ proc' = [proc EXCEPT ![w].pc = "be_remove", ![w].itemsInCart = getCartItemCount(w),
                          ![w].i = 0]
  /\ UNCHANGED <<nProducts, shop, fixture, authFile, cart, page, log, testsRun, faults, workers>>
  /\ Interleave(w)

\* CartPage.removeItemByIndex(index): this.removeButtons.nth(index).click();
\* the application takes the clicked entry out of the cart
removeItemByIndex_target(w, index) == index + 1

removeItemByIndex_matches(w, index) ==
  IF index < Len(CartItemsShown(w)) THEN 1 ELSE 0

\* for (let i = 0; i < itemsInCart; i++) await pm.cartPage.removeItemByIndex(i)
beforeEach_removeItem(w) ==
  /\ proc[w].pc = "be_remove"
  /\ proc[w].i < proc[w].itemsInCart
  /\ \E r \in EngineOutcomes(removeItemByIndex_matches(w, proc[w].i)) :
       /\ Spend(r)
       /\ IF r = "ok"
          THEN /\ cart' = RemoveAt(cart, removeItemByIndex_target(w, proc[w].i))
               /\ proc' = [proc EXCEPT ![w].i = @ + 1]
               /\ log' = log
          ELSE /\ cart' = cart
               /\ Fail(w, r, "removeItemByIndex")
  /\ UNCHANGED <<nProducts, shop, fixture, authFile, page, testsRun, workers>>
  /\ Interleave(w)

\* CartPage.clearCart: let itemCount = await this.getCartItemCount(), before the
\* loop and again at the end of each turn
clearCart_getCartItemCount(w) ==
  /\ proc[w].pc = "cc_getCartItemCount"
  /\ proc' = [proc EXCEPT ![w].pc = "cc_while", ![w].itemsInCart = getCartItemCount(w)]
  /\ log' = [log EXCEPT ![w] = Did(@, "getCartItemCount")]
  /\ UNCHANGED <<nProducts, shop, fixture, authFile, cart, page, testsRun, faults, workers>>
  /\ Interleave(w)

\* a loop that stops at one item
clearCart_loopContinues_leavingOne(itemCount) == itemCount > 1

\* while (itemCount > 0)
clearCart_loopContinues(itemCount) == itemCount > 0

\* await this.removeItemByIndex(0)
clearCart_removeItemByIndex(w) ==
  /\ proc[w].pc = "cc_while"
  /\ clearCart_loopContinues(proc[w].itemsInCart)
  /\ \E r \in EngineOutcomes(removeItemByIndex_matches(w, 0)) :
       /\ Spend(r)
       /\ IF r = "ok"
          THEN /\ cart' = RemoveAt(cart, removeItemByIndex_target(w, 0))
               /\ proc' = [proc EXCEPT ![w].pc = "cc_getCartItemCount"]
               /\ log' = [log EXCEPT ![w] =
                            [Did(@, "removeItemByIndex") EXCEPT
                               !.events = Append(@, [op |-> "remove", index |-> 0,
                                                     product |-> cart[1]])]]
          ELSE /\ cart' = cart
               /\ Fail(w, r, "removeItemByIndex")
  /\ UNCHANGED <<nProducts, shop, fixture, authFile, page, testsRun, workers>>
  /\ Interleave(w)

\* the loop is over: clearCart returns
clearCart_return(w) ==
  /\ proc[w].pc = "cc_while"
  /\ ~clearCart_loopContinues(proc[w].itemsInCart)
  /\ proc' = [proc EXCEPT ![w].pc = "cc_returned"]
  /\ log' = [log EXCEPT ![w] = Return(@)]
  /\ UNCHANGED <<nProducts, shop, fixture, authFile, cart, page, testsRun, faults, workers>>
  /\ Interleave(w)

\* the loop is over (or was not entered): navigate back to the inventory
beforeEach_loopDone(w) ==
  /\ proc[w].pc = "be_remove"
  /\ ~(proc[w].i < proc[w].itemsInCart)
  /\ proc' = [proc EXCEPT ![w].pc = "be_reopen"]
  /\ UNCHANGED <<nProducts, shop, fixture, authFile, cart, page, log, testsRun, faults, workers>>
  /\ Interleave(w)

\* ------------------------------------------------ InventoryPage operations
\* getProductCount: this.productCards.count()
getProductCount(w) == Cardinality(ProductsShown(w))

\* a validation that lets one product too many through
TooMany_lenient(count, totalProducts) == count > totalProducts + 1

\* if (count > totalProducts) throw new Error(`Cannot add ...`)
TooMany(count, totalProducts) == count > totalProducts

\* const totalProducts = await this.getProductCount(); the validation
addRandomProductsToCart_call(w) ==
  /\ proc[w].pc = "test"
  /\ LET total == getProductCount(w)
         l == [Did(Did(Enter(log[w], "addRandomProductsToCart"), "getProductCount"),
                   "validate") EXCEPT !.cartAtCall = cart]
     IN IF TooMany(proc[w].count, total)
        THEN /\ proc' = Throw(w, "Error", "validate")
             /\ log' = [log EXCEPT ![w] = Rejected(Raised(l, "Error", "validate", "ok"))]
        ELSE /\ proc' = [proc EXCEPT ![w].pc = "arp_generate", ![w].totalProducts = total,
                                     ![w].indices = <<>>, ![w].added = <<>>]
             /\ log' = [log EXCEPT ![w] = l]
  /\ UNCHANGED <<nProducts, shop, fixture, authFile, cart, page, testsRun, faults, workers>>
  /\ Interleave(w)

\* Math.floor(Math.random() * max)
RandomIndex(max) == IF max = 0 THEN {0} ELSE 0..(max - 1)

\* a push that does not look whether the index is already there
PushUnique_always(indices, randomIndex) == Append(indices, randomIndex)

\* if (!indices.includes(randomIndex)) indices.push(randomIndex)
PushUnique(indices, randomIndex) ==
  IF randomIndex \in Range(indices) THEN indices ELSE Append(indices, randomIndex)

\* a loop that takes one turn too many
LoopContinues_inclusive(indices, count) == Len(indices) <= count

\* while (indices.length < count)
LoopContinues(indices, count) == Len(indices) < count

\* generateRandomUniqueIndices: one turn of the loop
generateRandomUniqueIndices_draw(w) ==
  /\ proc[w].pc = "arp_generate"
  /\ LoopContinues(proc[w].indices, proc[w].count)
  /\ \E randomIndex \in RandomIndex(proc[w].totalProducts) :
       proc' = [proc EXCEPT ![w].indices = PushUnique(@, randomIndex)]
  /\ log' = [log EXCEPT ![w].drawn = TRUE]
  /\ UNCHANGED <<nProducts, shop, fixture, authFile, cart, page, testsRun, faults, workers>>
  /\ Interleave(w)

\* generateRandomUniqueIndices: return indices
generateRandomUniqueIndices_return(w) ==
  /\ proc[w].pc = "arp_generate"
  /\ ~LoopContinues(proc[w].indices, proc[w].count)
  /\ proc' = [proc EXCEPT ![w].pc = "arp_loop", ![w].j = 1]
  /\ UNCHANGED <<nProducts, shop, fixture, authFile, cart, page, log, testsRun, faults, workers>>
  /\ Interleave(w)

\* getProductDetails(index): the name and the price of the index-th item
getProductDetails(index) == [name |-> ProductName(index), price |-> ProductPrice(index)]

\* for (const index of randomIndices): const productDetails = await getProductDetails(index)
addRandomProductsToCart_getProductDetails(w) ==
  /\ proc[w].pc = "arp_loop"
  /\ proc[w].j <= Len(proc[w].indices)
  /\ LET index == proc[w].indices[proc[w].j] IN
     \E r \in ReadOutcomes(IF index \in ProductsShown(w) THEN 1 ELSE 0) :
       IF r = "ok"
       THEN /\ proc' = [proc EXCEPT ![w].pc = "arp_add", ![w].details = getProductDetails(index)]
            /\ log' = [log EXCEPT ![w] =
                         [Did(@, "getProductDetails") EXCEPT
                            !.events = Append(@, [op |-> "read", index |-> index,
                                                  product |-> index])]]
       ELSE Fail(w, r, "getProductDetails")
  /\ UNCHANGED <<nProducts, shop, fixture, authFile, cart, page, testsRun, faults, workers>>
  /\ Interleave(w)

\* a lookup by position among the add buttons still shown: .nth(index)
addProductToCartByIndex_nth(w, index) ==
  LET left == {p \in ProductsShown(w) : p \notin Range(cart)}
  IN {p \in left : Cardinality({q \in left : q < p}) = index}

\* addProductToCartByIndex(index): the button the name-built selector resolves to
addProductToCartByIndex_matches(w, index) ==
  IF index \in ProductsShown(w)
  THEN AddButtonMatches(w, AddSelector(ProductName(index)))
  ELSE {}

\* an add loop that, when an add-action fails, takes out what it had added
addRandomProductsToCart_addOrRollBack(w) ==
  /\ proc[w].pc = "arp_add"
  /\ LET index == proc[w].indices[proc[w].j]
         matches == AddButtonMatches(w, AddSelector(ProductName(index)))
     IN \E r \in EngineOutcomes(Cardinality(matches)) :
          /\ Spend(r)
          /\ IF r = "ok"
             THEN /\ cart' = Append(cart, index)
                  /\ log' = [log EXCEPT ![w] =
                               [Did(@, "addProductToCartByIndex") EXCEPT
                                  !.events = Append(@, [op |-> "add", index |-> index,
                                                        product |-> index])]]
                  /\ proc' = [proc EXCEPT ![w].pc = "arp_loop", ![w].j = @ + 1,
                                          ![w].added = Append(@, proc[w].details)]
             ELSE /\ cart' = log[w].cartAtCall
                  /\ Fail(w, r, "addProductToCartByIndex")
  /\ UNCHANGED <<nProducts, shop, fixture, authFile, page, testsRun, workers>>
  /\ Interleave(w)

\* await this.addProductToCartByIndex(index); addedProducts.push(productDetails)
addRandomProductsToCart_addProductToCartByIndex(w) ==
  /\ proc[w].pc = "arp_add"
  /\ LET index == proc[w].indices[proc[w].j]
         matches == addProductToCartByIndex_matches(w, index)
     IN \E r \in EngineOutcomes(Cardinality(matches)) :
          /\ Spend(r)
          /\ IF r = "ok"
             THEN /\ \E target \in matches :
                       /\ cart' = Append(cart, target)
                       /\ log' = [log EXCEPT ![w] =
                                    [Did(@, "addProductToCartByIndex") EXCEPT
                                       !.events = Append(@, [op |-> "add", index |-> index,
                                                             product |-> target])]]
                  /\ proc' = [proc EXCEPT ![w].pc = "arp_loop", ![w].j = @ + 1,
                                          ![w].added = Append(@, proc[w].details)]
             ELSE /\ cart' = cart
                  /\ Fail(w, r, "addProductToCartByIndex")
  /\ UNCHANGED <<nProducts, shop, fixture, authFile, page, testsRun, workers>>
  /\ Interleave(w)

\* return addedProducts
addRandomProductsToCart_return(w) ==
  /\ proc[w].pc = "arp_loop"
  /\ ~(proc[w].j <= Len(proc[w].indices))
  /\ proc' = [proc EXCEPT ![w].pc = IF proc[w].test = "complete3"
                                    THEN "t_getCartCount" ELSE "t_goToCart"]
  /\ log' = [log EXCEPT ![w] = Return(@)]
  /\ UNCHANGED <<nProducts, shop, fixture, authFile, cart, page, testsRun, faults, workers>>
  /\ Interleave(w)

\* environment: the badge's text is the decimal numeral of the number it shows
Digits == <<"0", "1", "2", "3", "4", "5", "6", "7", "8", "9">>

RECURSIVE DecimalText(_)
DecimalText(n) ==
  IF n < 10 THEN <<Digits[n + 1]>>
  ELSE DecimalText(n \div 10) \o <<Digits[(n % 10) + 1]>>

BadgeInnerText(w) == DecimalText(BadgeText(w))

\* parseInt(text, 10): leading whitespace is skipped, then the longest run of
\* decimal digits is read; NaN when there is none
NaN == -1

IsDigit(c) == \E d \in DOMAIN Digits : Digits[d] = c

DigitValue(c) == (CHOOSE d \in DOMAIN Digits : Digits[d] = c) - 1

RECURSIVE ReadDigits(_, _)
ReadDigits(s, acc) ==
  IF s = <<>> \/ ~IsDigit(Head(s)) THEN acc
  ELSE ReadDigits(Tail(s), (10 * acc) + DigitValue(Head(s)))

parseInt(text) ==
  LET s == SkipSpaces(text)
  IN IF s = <<>> \/ ~IsDigit(Head(s)) THEN NaN ELSE ReadDigits(s, 0)

\* a badge read that answers with the length of the badge's text
getCartCount_textLength(w) == IF BadgePresent(w) THEN Len(BadgeInnerText(w)) ELSE 0

\* getCartCount: parseInt of the badge text; catch { return 0 }
getCartCount(w) == IF BadgePresent(w) THEN parseInt(BadgeInnerText(w)) ELSE 0

\* CartPage.getCartBadgeCount: the same read, from the cart page object
getCartBadgeCount(w) == IF BadgePresent(w) THEN parseInt(BadgeInnerText(w)) ELSE 0

\* expect(await pm.inventoryPage.getCartCount()).toBe(itemCountToSelect)
test_getCartCount(w) ==
  /\ proc[w].pc = "t_getCartCount"
  /\ LET n == getCartCount(w)
         l == [log[w] EXCEPT !.asserted =
                 Append(@, [line |-> 95, op |-> "getCartCount", consumed |-> TRUE])]
     IN IF n = proc[w].count
        THEN /\ proc' = [proc EXCEPT ![w].pc = "t_goToCart", ![w].cartCount = n]
             /\ log' = [log EXCEPT ![w] = l]
        ELSE /\ proc' = [Throw(w, "AssertionError", "expect getCartCount") EXCEPT
                           ![w].cartCount = n]
             /\ log' = [log EXCEPT ![w] =
                          Rejected(Raised(l, "AssertionError", "expect getCartCount", "ok"))]
  /\ UNCHANGED <<nProducts, shop, fixture, authFile, cart, page, testsRun, faults, workers>>
  /\ Interleave(w)

\* ------------------------------------------------- the rest of the scenario
\* The steps of the test bodies that act on the application.  The assertions
\* on URLs, titles and item lists between them read the page and change nothing.
\* await pm.inventoryPage.goToCart(): this.shoppingCartLink.click()
test_goToCart(w) ==
  /\ proc[w].pc = "t_goToCart"
  /\ \E r \in EngineOutcomes(IF page[w].url \in ShopScreens THEN 1 ELSE 0) :
       /\ Spend(r)
       /\ IF r = "ok"
          THEN /\ page' = [page EXCEPT ![w] = Navigate("cart")]
               /\ proc' = [proc EXCEPT ![w].pc = IF proc[w].test \in {"complete3", "consistency"}
                                                 THEN "t_cartItems" ELSE "t_proceedToCheckout"]
               /\ log' = log
          ELSE /\ page' = page
               /\ Fail(w, r, "goToCart")
  /\ UNCHANGED <<nProducts, shop, fixture, authFile, cart, testsRun, workers>>
  /\ Interleave(w)

\* a read of the item names that stops after the first entry
getAllItemNames_first(w) ==
  IF CartItemsShown(w) = <<>> THEN <<>> ELSE <<ProductName(CartItemsShown(w)[1])>>

\* CartPage.getAllItemNames: this.cartItemNames.allInnerTexts()
getAllItemNames(w) == [x \in DOMAIN CartItemsShown(w) |-> ProductName(CartItemsShown(w)[x])]

\* productNames.every(name => itemNames.includes(name))
everyIncluded(productNames, itemNames) ==
  \A x \in DOMAIN productNames : \E y \in DOMAIN itemNames : itemNames[y] = productNames[x]

\* CartPage.areItemsInCart(productNames)
areItemsInCart(w, productNames) == everyIncluded(productNames, getAllItemNames(w))

\* const selectedProductNames = selectedProducts.map(p => p.name)
selectedProductNames(w) == [x \in DOMAIN proc[w].added |-> proc[w].added[x].name]

\* on the cart screen: expect(await pm.cartPage.getCartItemCount()).toBe(itemCountToSelect)
\* in the first test, and in both the check that every selected name is listed
test_cartItems(w) ==
  /\ proc[w].pc = "t_cartItems"
  /\ LET seen == [count |-> getCartItemCount(w), names |-> getAllItemNames(w)]
         ok == /\ proc[w].test = "complete3" => seen.count = proc[w].count
               /\ areItemsInCart(w, selectedProductNames(w))
     IN IF ok
        THEN /\ proc' = [proc EXCEPT ![w].pc = "t_proceedToCheckout", ![w].seenCart = seen]
             /\ log' = log
        ELSE /\ proc' = [Throw(w, "AssertionError", "expect cartItems") EXCEPT
                           ![w].seenCart = seen]
             /\ log' = [log EXCEPT ![w] =
                          Rejected(Raised(@, "AssertionError", "expect cartItems", "ok"))]
  /\ UNCHANGED <<nProducts, shop, fixture, authFile, cart, page, testsRun, faults, workers>>
  /\ Interleave(w)

\* await pm.cartPage.proceedToCheckout(): this.checkoutButton.click()
test_proceedToCheckout(w) ==
  /\ proc[w].pc = "t_proceedToCheckout"
  /\ \E r \in EngineOutcomes(IF page[w].url = "cart" THEN 1 ELSE 0) :
       /\ Spend(r)
       /\ IF r = "ok"
          THEN /\ page' = [page EXCEPT ![w] = Navigate("step1")]
               /\ proc' = [proc EXCEPT ![w].pc = "t_waitForPageLoad"]
               /\ log' = log
          ELSE /\ page' = page
               /\ Fail(w, r, "proceedToCheckout")
  /\ UNCHANGED <<nProducts, shop, fixture, authFile, cart, testsRun, workers>>
  /\ Interleave(w)

\* the composite the test fills the form with: fillCheckoutInformation in the
\* first test, completeCheckoutStepOne in the others
StepOneComposite(test) ==
  IF test = "complete3" THEN "fillCheckoutInformation" ELSE "completeCheckoutStepOne"

\* await pm.checkoutStepOnePage.waitForPageLoad()
test_waitForPageLoad(w) ==
  /\ proc[w].pc = "t_waitForPageLoad"
  /\ \E r \in EngineOutcomes(IF page[w].url = "step1" THEN 1 ELSE 0) :
       /\ Spend(r)
       /\ IF r = "ok"
          THEN /\ proc' = [proc EXCEPT ![w].pc = "s1_firstName"]
               /\ log' = log
          ELSE Fail(w, r, "waitForPageLoad")
  /\ UNCHANGED <<nProducts, shop, fixture, authFile, cart, page, testsRun, workers>>
  /\ Interleave(w)

CHECKOUT_INFO_VALID == [firstName |-> "John", lastName |-> "Doe", postalCode |-> "12345"]

\* the composite is called; await this.firstNameInput.fill(info.firstName)
fillCheckoutInformation_firstName(w) ==
  /\ proc[w].pc = "s1_firstName"
  /\ \E r \in EngineOutcomes(IF page[w].url = "step1" THEN 1 ELSE 0) :
       /\ Spend(r)
       /\ IF r = "ok"
          THEN /\ page' = [page EXCEPT ![w].firstName = CHECKOUT_INFO_VALID.firstName]
               /\ proc' = [proc EXCEPT ![w].pc = "s1_lastName"]
               /\ log' = [log EXCEPT ![w] =
                            Did(Enter(@, StepOneComposite(proc[w].test)), "firstName")]
          ELSE /\ page' = page
               /\ FailFrom(w, Enter(log[w], StepOneComposite(proc[w].test)), r, "firstName")
  /\ UNCHANGED <<nProducts, shop, fixture, authFile, cart, testsRun, workers>>
  /\ Interleave(w)

\* fillCheckoutInformation: await this.lastNameInput.fill(info.lastName)
fillCheckoutInformation_lastName(w) ==
  /\ proc[w].pc = "s1_lastName"
  /\ \E r \in EngineOutcomes(IF page[w].url = "step1" THEN 1 ELSE 0) :
       /\ Spend(r)
       /\ IF r = "ok"
          THEN /\ page' = [page EXCEPT ![w].lastName = CHECKOUT_INFO_VALID.lastName]
               /\ proc' = [proc EXCEPT ![w].pc = "s1_postalCode"]
               /\ log' = [log EXCEPT ![w] = Did(@, "lastName")]
          ELSE /\ page' = page
               /\ Fail(w, r, "lastName")
  /\ UNCHANGED <<nProducts, shop, fixture, authFile, cart, testsRun, workers>>
  /\ Interleave(w)

\* fillCheckoutInformation: await this.postalCodeInput.fill(info.postalCode),
\* after which fillCheckoutInformation returns
fillCheckoutInformation_postalCode(w) ==
  /\ proc[w].pc = "s1_postalCode"
  /\ \E r \in EngineOutcomes(IF page[w].url = "step1" THEN 1 ELSE 0) :
       /\ Spend(r)
       /\ IF r = "ok"
          THEN /\ page' = [page EXCEPT ![w].postalCode = CHECKOUT_INFO_VALID.postalCode]
               /\ proc' = [proc EXCEPT ![w].pc = "s1_continue"]
               /\ log' = [log EXCEPT ![w] =
                            IF @.composite = "fillCheckoutInformation"
                            THEN Return(Did(@, "postalCode")) ELSE Did(@, "postalCode")]
          ELSE /\ page' = page
               /\ Fail(w, r, "postalCode")
  /\ UNCHANGED <<nProducts, shop, fixture, authFile, cart, testsRun, workers>>
  /\ Interleave(w)

\* environment: the overview's summary.  The item total is the sum of the
\* prices in the cart, the tax is 8% of it rounded to the cent, the total is
\* their sum; each label shows its amount after a caption and a dollar sign.
RECURSIVE SumPrices(_)
SumPrices(items) ==
  IF items = <<>> THEN 0 ELSE ProductPrice(Head(items)) + SumPrices(Tail(items))

TaxOn(cents) == ((cents * 8) + 50) \div 100

MoneyText(cents) ==
  <<"$">> \o DecimalText(cents \div 100)
          \o <<".", Digits[((cents % 100) \div 10) + 1], Digits[(cents % 10) + 1]>>

OverviewLabels ==
  LET sub == SumPrices(cart) IN
  [subtotal |-> <<"I", "t", "e", "m", " ", "t", "o", "t", "a", "l", ":", " ">> \o MoneyText(sub),
   tax |-> <<"T", "a", "x", ":", " ">> \o MoneyText(TaxOn(sub)),
   total |-> <<"T", "o", "t", "a", "l", ":", " ">> \o MoneyText(sub + TaxOn(sub))]

\* where the continue button leads: the overview once the three fields are filled
ContinueFrom(pg) ==
  IF pg.firstName # "" /\ pg.lastName # "" /\ pg.postalCode # ""
  THEN [Navigate("step2") EXCEPT !.labels = OverviewLabels]
  ELSE [pg EXCEPT !.error = <<"Error:", "field is required">>]

\* what each test does on the overview: two of them read the price summary,
\* one goes straight to the finish, one ends there
AfterContinue(test) ==
  CASE test \in {"complete3", "consistency"} -> "t_orderItems"
    [] test = "successfully" -> "t_clickFinish"
    [] OTHER -> "ps_subtotal"

\* clickContinue: await this.continueButton.click(); it ends completeCheckoutStepOne
clickContinue(w) ==
  /\ proc[w].pc = "s1_continue"
  /\ \E r \in EngineOutcomes(IF page[w].url = "step1" THEN 1 ELSE 0) :
       /\ Spend(r)
       /\ IF r = "ok"
          THEN /\ page' = [page EXCEPT ![w] = ContinueFrom(@)]
               /\ proc' = [proc EXCEPT ![w].pc = AfterContinue(proc[w].test),
                                       ![w].psCaller = "test"]
               /\ log' = [log EXCEPT ![w] =
                            IF @.outcome = "running"
                            THEN Return(Did(@, "clickContinue")) ELSE @]
          ELSE /\ page' = page
               /\ Fail(w, r, "clickContinue")
  /\ UNCHANGED <<nProducts, shop, fixture, authFile, cart, testsRun, workers>>
  /\ Interleave(w)

\* environment: the overview lists one .cart_item per cart entry
OrderItemsShown(w) == IF page[w].url = "step2" THEN cart ELSE <<>>

\* CheckoutStepTwoPage.getItemCount: this.cartItems.count()
getItemCount(w) == Len(OrderItemsShown(w))

\* CheckoutStepTwoPage.getAllItemNames: this.cartItemNames.allInnerTexts()
getAllItemNames_order(w) ==
  [x \in DOMAIN OrderItemsShown(w) |-> ProductName(OrderItemsShown(w)[x])]

\* CheckoutStepTwoPage.areItemsInOrder(expectedItems)
areItemsInOrder(w, expectedItems) == everyIncluded(expectedItems, getAllItemNames_order(w))

\* on the overview: expect(await pm.checkoutStepTwoPage.getItemCount()).toBe(3), 3
\* being the count the test selected, and the check that every selected name is
\* listed
test_orderItems(w) ==
  /\ proc[w].pc = "t_orderItems"
  /\ LET seen == [count |-> getItemCount(w), names |-> getAllItemNames_order(w)]
         ok == /\ seen.count = proc[w].count
               /\ areItemsInOrder(w, selectedProductNames(w))
     IN IF ok
        THEN /\ proc' = [proc EXCEPT ![w].pc = IF proc[w].test = "consistency"
                                               THEN "passed" ELSE "ps_subtotal",
                                     ![w].seenOrder = seen]
             /\ log' = log
        ELSE /\ proc' = [Throw(w, "AssertionError", "expect orderItems") EXCEPT
                           ![w].seenOrder = seen]
             /\ log' = [log EXCEPT ![w] =
                          Rejected(Raised(@, "AssertionError", "expect orderItems", "ok"))]
  /\ UNCHANGED <<nProducts, shop, fixture, authFile, cart, page, testsRun, faults, workers>>
  /\ Interleave(w)

\* ------------------------------------------- CartPage: removal by name
\* environment: the remove button of a cart entry carries the product's slug
RemoveButtonAttr(p) == <<"remove-">> \o ProductSlug(p)

RemoveButtonMatches(w, selector) ==
  {p \in Range(CartItemsShown(w)) : RemoveButtonAttr(p) = selector}

\* a selector built from the name as it is given
RemoveSelector_asGiven(name) == <<"remove-">> \o name

\* [data-test="remove-${productNameKebabCase}"]
RemoveSelector(name) == <<"remove-">> \o KebabCase(name)

\* CartPage.isItemInCart: itemNames.includes(productName)
isItemInCart(w, productName) ==
  \E x \in DOMAIN getAllItemNames(w) : getAllItemNames(w)[x] = productName

\* InventoryPage.addProductToCartByIndex(index), on a product shown
inventory_addProductToCartByIndex(w) ==
  /\ proc[w].pc = "rn_add"
  /\ \E index \in ProductsShown(w) :
       \E r \in EngineOutcomes(Cardinality(addProductToCartByIndex_matches(w, index))) :
         /\ Spend(r)
         /\ IF r = "ok"
            THEN /\ cart' = Append(cart, index)
                 /\ proc' = [proc EXCEPT ![w].added = Append(@, getProductDetails(index))]
                 /\ log' = log
            ELSE /\ cart' = cart
                 /\ Fail(w, r, "addProductToCartByIndex")
  /\ page' = page
  /\ UNCHANGED <<nProducts, shop, fixture, authFile, testsRun, workers>>
  /\ Interleave(w)

\* InventoryPage.goToCart: await this.shoppingCartLink.click()
inventory_goToCart(w) ==
  /\ proc[w].pc = "rn_add"
  /\ \E r \in EngineOutcomes(IF page[w].url \in ShopScreens THEN 1 ELSE 0) :
       /\ Spend(r)
       /\ IF r = "ok"
          THEN /\ page' = [page EXCEPT ![w] = Navigate("cart")]
               /\ proc' = [proc EXCEPT ![w].pc = "rn_removeItemByName"]
               /\ log' = log
          ELSE /\ page' = page
               /\ Fail(w, r, "goToCart")
  /\ UNCHANGED <<nProducts, shop, fixture, authFile, cart, testsRun, workers>>
  /\ Interleave(w)

\* CartPage.removeItemByName(productName), with the name of a product added:
\* await removeButton.click(); the application takes the entry out of the cart
removeItemByName(w) ==
  /\ proc[w].pc = "rn_removeItemByName"
  /\ \E x \in DOMAIN proc[w].added :
       LET productName == proc[w].added[x].name
           matches == RemoveButtonMatches(w, RemoveSelector(productName))
           l == [Enter(log[w], "removeItemByName") EXCEPT !.cartAtCall = cart]
       IN \E r \in EngineOutcomes(Cardinality(matches)) :
            /\ Spend(r)
            /\ IF r = "ok"
               THEN /\ cart' = SelectSeq(cart, LAMBDA p : p \notin matches)
                    /\ proc' = [proc EXCEPT ![w].pc = "rn_isItemInCart",
                                            ![w].details = proc[w].added[x]]
                    /\ log' = [log EXCEPT ![w] = Return(Did(l, "click"))]
               ELSE /\ cart' = cart
                    /\ FailFrom(w, l, r, "click")
  /\ page' = page
  /\ UNCHANGED <<nProducts, shop, fixture, authFile, testsRun, workers>>
  /\ Interleave(w)

\* await cartPage.isItemInCart(productName), with the name just removed
isItemInCart_call(w) ==
  /\ proc[w].pc = "rn_isItemInCart"
  /\ proc' = [proc EXCEPT ![w].pc = "passed",
                          ![w].received = [kind |-> "bool", text |-> <<>>,
                                           bool |-> isItemInCart(w, proc[w].details.name)]]
  /\ UNCHANGED <<nProducts, shop, fixture, authFile, cart, page, log, testsRun, faults, workers>>
  /\ Interleave(w)

\* ------------------------------------------- CheckoutStepTwoPage: the prices
RECURSIVE TakeDigits(_)
TakeDigits(s) ==
  IF s = <<>> \/ ~IsDigit(Head(s)) THEN <<>> ELSE <<Head(s)>> \o TakeDigits(Tail(s))

\* (\d+\.?\d*) read greedily at the head of s
CaptureAt(s) ==
  LET int == TakeDigits(s)
      rest == SubSeq(s, Len(int) + 1, Len(s))
  IN IF rest # <<>> /\ Head(rest) = "." THEN int \o <<".">> \o TakeDigits(Tail(rest)) ELSE int

\* a pattern without the dollar sign: /(\d+\.?\d*)/
RECURSIVE MatchAmount_anyNumber(_)
MatchAmount_anyNumber(text) ==
  IF text = <<>> THEN <<>>
  ELSE IF IsDigit(Head(text)) THEN CaptureAt(text)
  ELSE MatchAmount_anyNumber(Tail(text))

\* text.match(/\$(\d+\.?\d*)/): the capture of the leftmost match, <<>> for null
RECURSIVE MatchAmount(_)
MatchAmount(text) ==
  IF Len(text) < 2 THEN <<>>
  ELSE IF Head(text) = "$" /\ IsDigit(text[2]) THEN CaptureAt(Tail(text))
  ELSE MatchAmount(Tail(text))

\* a conversion that stops at the point, as parseInt does
parseFloat_integerPart(s) ==
  IF TakeDigits(s) = <<>> THEN [mant |-> NaN, scale |-> 0]
  ELSE [mant |-> ReadDigits(TakeDigits(s), 0), scale |-> 0]

\* parseFloat of a decimal numeral: its digits and the number of them after the point
parseFloat(s) ==
  LET int == TakeDigits(s)
      rest == SubSeq(s, Len(int) + 1, Len(s))
      frac == IF rest # <<>> /\ Head(rest) = "." THEN TakeDigits(Tail(rest)) ELSE <<>>
  IN IF int = <<>> THEN [mant |-> NaN, scale |-> 0]
     ELSE [mant |-> ReadDigits(int \o frac, 0), scale |-> Len(frac)]

\* return match ? parseFloat(match[1]) : 0; match is evaluated once
ParseAmount(text) ==
  CHOOSE amount \in {IF match # <<>> THEN parseFloat(match) ELSE Zero :
                       match \in {MatchAmount(text)}} : TRUE

getSubtotal(w) == ParseAmount(page[w].labels.subtotal)

getTax(w) == ParseAmount(page[w].labels.tax)

getTotal(w) == ParseAmount(page[w].labels.total)

\* environment: the summary labels are on the overview screen
LabelCount(w) == IF page[w].url = "step2" THEN 1 ELSE 0

\* arithmetic on the numbers read
RECURSIVE Pow10(_)
Pow10(n) == IF n = 0 THEN 1 ELSE 10 * Pow10(n - 1)

Max(a, b) == IF a > b THEN a ELSE b

Align(a, k) == a.mant * Pow10(k - a.scale)

Plus(a, b) ==
  LET k == Max(a.scale, b.scale) IN [mant |-> Align(a, k) + Align(b, k), scale |-> k]

\* toFixed(2): the number in cents, rounded to the nearest cent
toFixed2(a) == ((200 * a.mant) + Pow10(a.scale)) \div (2 * Pow10(a.scale))

\* expect(a).toBeCloseTo(b, 2): |a - b| < 0.005
toBeCloseTo2(a, b) ==
  LET k == Max(a.scale, b.scale)
      d == Align(a, k) - Align(b, k)
  IN (IF d < 0 THEN 0 - d ELSE d) * 1000 < 5 * Pow10(k)

toBeGreaterThan0(a) == a.mant > 0

\* getPriceSummary: const subtotal = await this.getSubtotal()
getPriceSummary_getSubtotal(w) ==
  /\ proc[w].pc = "ps_subtotal"
  /\ \E r \in ReadOutcomes(LabelCount(w)) :
       IF r = "ok"
       THEN /\ proc' = [proc EXCEPT ![w].pc = "ps_tax", ![w].summary.subtotal = getSubtotal(w)]
            /\ log' = log
       ELSE Fail(w, r, "getSubtotal")
  /\ UNCHANGED <<nProducts, shop, fixture, authFile, cart, page, testsRun, faults, workers>>
  /\ Interleave(w)

\* getPriceSummary: const tax = await this.getTax()
getPriceSummary_getTax(w) ==
  /\ proc[w].pc = "ps_tax"
  /\ \E r \in ReadOutcomes(LabelCount(w)) :
       IF r = "ok"
       THEN /\ proc' = [proc EXCEPT ![w].pc = "ps_total", ![w].summary.tax = getTax(w)]
            /\ log' = log
       ELSE Fail(w, r, "getTax")
  /\ UNCHANGED <<nProducts, shop, fixture, authFile, cart, page, testsRun, faults, workers>>
  /\ Interleave(w)

\* getPriceSummary: const total = await this.getTotal(); return { subtotal, tax, total }
getPriceSummary_getTotal(w) ==
  /\ proc[w].pc = "ps_total"
  /\ \E r \in ReadOutcomes(LabelCount(w)) :
       IF r = "ok"
       THEN /\ proc' = [proc EXCEPT ![w].pc = IF proc[w].psCaller = "test"
                                              THEN "ps_expect" ELSE "ps_compare",
                                    ![w].summary.total = getTotal(w)]
            /\ log' = log
       ELSE Fail(w, r, "getTotal")
  /\ UNCHANGED <<nProducts, shop, fixture, authFile, cart, page, testsRun, faults, workers>>
  /\ Interleave(w)

\* let expectedSubtotal = 0; forEach: expectedSubtotal += parseFloat(price)
RECURSIVE expectedSubtotal(_)
expectedSubtotal(selectedProducts) ==
  IF selectedProducts = <<>> THEN 0
  ELSE Head(selectedProducts).price + expectedSubtotal(Tail(selectedProducts))

\* the test's assertions on the summary it read; isPriceCalculationCorrect is
\* called next and reads the summary again
test_expectPriceSummary(w) ==
  /\ proc[w].pc = "ps_expect"
  /\ LET ps == proc[w].summary
         ok == /\ toBeGreaterThan0(ps.subtotal)
               /\ toBeGreaterThan0(ps.tax)
               /\ toBeGreaterThan0(ps.total)
               /\ proc[w].test = "prices" =>
                    /\ toBeCloseTo2(ps.subtotal,
                                    [mant |-> expectedSubtotal(proc[w].added), scale |-> 2])
                    /\ toBeCloseTo2(Plus(ps.subtotal, ps.tax), ps.total)
     IN IF ok
        THEN /\ proc' = [proc EXCEPT ![w].pc = "ps_subtotal",
                                     ![w].psCaller = "isPriceCalculationCorrect"]
             /\ log' = log
        ELSE /\ proc' = Throw(w, "AssertionError", "expect priceSummary")
             /\ log' = [log EXCEPT ![w] =
                          Rejected(Raised(@, "AssertionError", "expect priceSummary", "ok"))]
  /\ UNCHANGED <<nProducts, shop, fixture, authFile, cart, page, testsRun, faults, workers>>
  /\ Interleave(w)

\* a comparison of the numbers as they are: calculatedTotal === total
isPriceCalculationCorrect_unrounded(ps) == Plus(ps.subtotal, ps.tax) = ps.total

\* return calculatedTotal.toFixed(2) === total.toFixed(2)
isPriceCalculationCorrect(ps) == toFixed2(Plus(ps.subtotal, ps.tax)) = toFixed2(ps.total)

\* expect(await pm.checkoutStepTwoPage.isPriceCalculationCorrect()).toBeTruthy()
isPriceCalculationCorrect_compare(w) ==
  /\ proc[w].pc = "ps_compare"
  /\ IF isPriceCalculationCorrect(proc[w].summary)
     THEN /\ proc' = [proc EXCEPT ![w].pc = IF proc[w].test = "complete3"
                                            THEN "t_clickFinish" ELSE "passed",
                                  ![w].correct = "true"]
          /\ log' = log
     ELSE /\ proc' = [Throw(w, "AssertionError", "expect isPriceCalculationCorrect")
                       EXCEPT ![w].correct = "false"]
          /\ log' = [log EXCEPT ![w] =
                       Rejected(Raised(@, "AssertionError",
                                       "expect isPriceCalculationCorrect", "ok"))]
  /\ UNCHANGED <<nProducts, shop, fixture, authFile, cart, page, testsRun, faults, workers>>
  /\ Interleave(w)

\* clickFinish: await this.finishButton.click(); the order is placed and the
\* application empties the cart
clickFinish(w) ==
  /\ proc[w].pc = "t_clickFinish"
  /\ \E r \in EngineOutcomes(IF page[w].url = "step2" THEN 1 ELSE 0) :
       /\ Spend(r)
       /\ IF r = "ok"
          THEN /\ page' = [page EXCEPT ![w] = Navigate("complete")]
               /\ cart' = <<>>
               /\ proc' = [proc EXCEPT ![w].pc = "lg_call", ![w].stmt = 1]
               /\ log' = log
          ELSE /\ page' = page
               /\ cart' = cart
               /\ Fail(w, r, "clickFinish")
  /\ UNCHANGED <<nProducts, shop, fixture, authFile, testsRun, workers>>
  /\ Interleave(w)

\* the test is over (passed, or failed at its first rejected await or
\* assertion): the runner closes its page
endTest(w) ==
  /\ proc[w].pc \in {"passed", "failed"}
  /\ proc' = [proc EXCEPT ![w] = IdleProc]
  /\ page' = [page EXCEPT ![w] = BlankPage]
  /\ log' = [log EXCEPT ![w] = EmptyLog]
  /\ UNCHANGED <<nProducts, shop, fixture, authFile, cart, testsRun, faults, workers>>
  /\ Interleave(w)

\* ----------------------------------------------------------- login suite
\* Texts are sequences of fragments; toContain looks for a run of fragments.
IsInfix(part, text) ==
  \E k \in 0..(Len(text) - Len(part)) : SubSeq(text, k + 1, k + Len(part)) = part

BaseURL == <<"https://www.", "saucedemo.com", "/">>

UrlOf(screen) ==
  CASE screen = "login" -> BaseURL
    [] screen = "relogin" -> BaseURL \o <<"?next=/", "inventory.html">>
    [] screen = "inventory" -> BaseURL \o <<"inventory.html">>
    [] screen = "cart" -> BaseURL \o <<"cart.html">>
    [] screen = "step1" -> BaseURL \o <<"checkout-step-one.html">>
    [] screen = "step2" -> BaseURL \o <<"checkout-step-two.html">>
    [] screen = "complete" -> BaseURL \o <<"checkout-complete.html">>
    [] OTHER -> <<"about:blank">>

\* String.prototype.trim, on the user names typed
trim(text) == IF text = "standard_user " THEN "standard_user" ELSE text

\* environment: the document title of the page loaded
DocumentTitle(w) == IF page[w].url = "about:blank" THEN "" ELSE shop.title

\* environment: what the login button leads to
LoginResponse(pg) ==
  LET username == IF shop.trims THEN trim(pg.username) ELSE pg.username IN
  IF pg.username = ""
  THEN [pg EXCEPT !.error = <<"Epic sadface:", "Username is required">>]
  ELSE IF pg.password = ""
  THEN [pg EXCEPT !.error = <<"Epic sadface:", "Password is required">>]
  ELSE IF username = "standard_user" /\ pg.password = "secret_sauce"
  THEN Navigate("inventory")
  ELSE [pg EXCEPT !.url = shop.rejectsTo,
                  !.error = <<"Epic sadface:", "Username and password do not match",
                              "any user in this service">>]

\* environment: how many elements each locator resolves to
ErrorContainerCount(w) ==
  IF page[w].url \in (LoginScreens \cup {"step1"}) /\ page[w].error # <<>> THEN 1 ELSE 0

LoginFormCount(w) == IF page[w].url \in LoginScreens THEN 1 ELSE 0

BadgeCount(w) == IF BadgePresent(w) THEN 1 ELSE 0

CheckoutButtonCount(w) == IF page[w].url = "cart" THEN 1 ELSE 0

FinishButtonCount(w) == IF page[w].url = "step2" THEN 1 ELSE 0

CompleteScreenCount(w) == IF page[w].url = "complete" THEN 1 ELSE 0

\* environment: the .title of the shop screens and the header of the last one
TitleText(w) ==
  CASE page[w].url = "inventory" -> <<"Products">>
    [] page[w].url = "cart" -> <<"Your Cart">>
    [] page[w].url = "step1" -> <<"Checkout: Your Information">>
    [] page[w].url = "step2" -> <<"Checkout: Overview">>
    [] page[w].url = "complete" -> <<"Checkout: Complete!">>
    [] OTHER -> <<>>

TitleCount(w) == IF TitleText(w) = <<>> THEN 0 ELSE 1

CompleteHeaderText(w) ==
  IF page[w].url = "complete" THEN <<"Thank you for your order", "!">> ELSE <<>>

\* environment (engine): isVisible answers at once; isEnabled waits for its element
LocatorIsVisible(n) == IF n > 0 THEN "true" ELSE "false"

LocatorIsEnabled(n) == IF n > 0 THEN "true" ELSE "TimeoutError"

\* environment: the account the suite is configured with (process.env)
STANDARD_USERNAME == "standard_user"

STANDARD_PASSWORD == "secret_sauce"

TEST_USERS == [STANDARD |-> [username |-> STANDARD_USERNAME, password |-> STANDARD_PASSWORD]]

\* reading a property the object does not have gives undefined
undefined == [type |-> "undefined"]

Property(object, key) == IF key \in DOMAIN object THEN object[key] ELSE undefined

\* a user list made of the one account the fixture defines
validUsers_standardOnly == <<Property(TEST_USERS, "STANDARD")>>

\* const validUsers = [TEST_USERS.STANDARD, TEST_USERS.PROBLEM,
\*   TEST_USERS.PERFORMANCE_GLITCH, TEST_USERS.ERROR, TEST_USERS.VISUAL]
validUsers ==
  <<Property(TEST_USERS, "STANDARD"), Property(TEST_USERS, "PROBLEM"),
    Property(TEST_USERS, "PERFORMANCE_GLITCH"), Property(TEST_USERS, "ERROR"),
    Property(TEST_USERS, "VISUAL")>>

\* return validUsers[Math.floor(Math.random() * validUsers.length)]
getRandomValidUser(random) == validUsers[random + 1]

fixtures_getRandomValidUser ==
  /\ \E random \in RandomIndex(Len(validUsers)) :
       fixture' = [helper |-> "getRandomValidUser", draws |-> <<random>>,
                   returned |-> getRandomValidUser(random)]
  /\ UNCHANGED <<nProducts, shop, authFile, cart, page, proc, log, overlap, testsRun, faults,
                 workers, probes>>

\* the literal pools of generateRandomCheckoutInfo
firstNames == <<"John", "Jane", "Bob", "Alice", "Charlie", "Diana">>

lastNames == <<"Smith", "Johnson", "Williams", "Brown", "Jones", "Garcia">>

postalCodes == <<"12345", "90210", "10001", "60601", "94102", "02101">>

\* generateRandomCheckoutInfo: one draw per field
generateRandomCheckoutInfo(r1, r2, r3) ==
  [firstName |-> firstNames[r1 + 1], lastName |-> lastNames[r2 + 1],
   postalCode |-> postalCodes[r3 + 1]]

fixtures_generateRandomCheckoutInfo ==
  /\ \E r1 \in RandomIndex(Len(firstNames)), r2 \in RandomIndex(Len(lastNames)),
        r3 \in RandomIndex(Len(postalCodes)) :
       fixture' = [helper |-> "generateRandomCheckoutInfo", draws |-> <<r1, r2, r3>>,
                   returned |-> generateRandomCheckoutInfo(r1, r2, r3)]
  /\ UNCHANGED <<nProducts, shop, authFile, cart, page, proc, log, overlap, testsRun, faults,
                 workers, probes>>

\* fixture data in which both fields empty expect the password's message
INVALID_CREDENTIALS_passwordFirst ==
  [INVALID_USERNAME |-> [username |-> "invalid_user", password |-> STANDARD_PASSWORD,
                         expectedError |-> <<"Username and password do not match">>],
   INVALID_PASSWORD |-> [username |-> STANDARD_USERNAME, password |-> "wrong_password",
                         expectedError |-> <<"Username and password do not match">>],
   EMPTY_USERNAME |-> [username |-> "", password |-> STANDARD_PASSWORD,
                       expectedError |-> <<"Username is required">>],
   EMPTY_PASSWORD |-> [username |-> STANDARD_USERNAME, password |-> "",
                       expectedError |-> <<"Password is required">>],
   BOTH_EMPTY |-> [username |-> "", password |-> "",
                   expectedError |-> <<"Password is required">>]]

\* the fixture data
INVALID_CREDENTIALS ==
  [INVALID_USERNAME |-> [username |-> "invalid_user", password |-> STANDARD_PASSWORD,
                         expectedError |-> <<"Username and password do not match">>],
   INVALID_PASSWORD |-> [username |-> STANDARD_USERNAME, password |-> "wrong_password",
                         expectedError |-> <<"Username and password do not match">>],
   EMPTY_USERNAME |-> [username |-> "", password |-> STANDARD_PASSWORD,
                       expectedError |-> <<"Username is required">>],
   EMPTY_PASSWORD |-> [username |-> STANDARD_USERNAME, password |-> "",
                       expectedError |-> <<"Password is required">>],
   BOTH_EMPTY |-> [username |-> "", password |-> "",
                   expectedError |-> <<"Username is required">>]]

\* a login attempt with one combination of the fixture data is named by its key
FixtureAttempts == DOMAIN INVALID_CREDENTIALS

\* the tests of the login suite that log in
SuiteLoginTests == {"valid_login", "invalid_username", "invalid_password",
                    "empty_username", "empty_password"}

NegativeLoginTests == SuiteLoginTests \ {"valid_login"}

LoginTests == SuiteLoginTests \cup FixtureAttempts

\* setup('authenticate'), run where process.env holds the account's password
\* and where it holds another one
SetupRuns == {"authenticate", "authenticate_rejected"}

\* every test typing the name of an account the shop does not let in
TestCredentials_lockedOut(test) == [username |-> "locked_out_user", password |-> "secret_sauce"]

\* what the test types: loginPage.login(username, password), or
\* fillPassword / fillUsername alone before clickLoginButton
TestCredentials(test) ==
  CASE test \in {"valid_login", "authenticate"} ->
         [username |-> TEST_USERS.STANDARD.username, password |-> TEST_USERS.STANDARD.password]
    [] test = "authenticate_rejected" ->
         [username |-> TEST_USERS.STANDARD.username, password |-> "another_password"]
    [] test = "invalid_username" -> [username |-> "invalid_user", password |-> "secret_sauce"]
    [] test = "invalid_password" -> [username |-> "standard_user", password |-> "wrong_password"]
    [] test = "empty_username" -> [username |-> "", password |-> "secret_sauce"]
    [] test = "empty_password" -> [username |-> "standard_user", password |-> ""]
    [] test = "whitespace" ->
         [username |-> "standard_user ", password |-> TEST_USERS.STANDARD.password]
    [] OTHER -> [username |-> INVALID_CREDENTIALS[test].username,
                 password |-> INVALID_CREDENTIALS[test].password]

\* the fields the test fills
Fills(test) ==
  CASE test = "empty_username" -> {"password"}
    [] test = "empty_password" -> {"username"}
    [] test = "page_title" -> {}
    [] OTHER -> {"username", "password"}

\* whether the test goes through LoginPage.login
ViaLogin(test) == Fills(test) = {"username", "password"}

\* loginPage = new LoginPage(page) on a fresh page
loginSuite_newLoginPage(w) ==
  /\ w \in workers
  /\ workers = {1}
  /\ proc[w].pc = "idle"
  /\ testsRun < MaxTests
  /\ \E t \in LoginTests :
       proc' = [proc EXCEPT ![w] = [IdleProc EXCEPT !.pc = "lg_open",
                                      !.phase = "beforeEach", !.test = t]]
  /\ page' = [page EXCEPT ![w] = BlankPage]
  /\ log' = [log EXCEPT ![w] = EmptyLog]
  /\ testsRun' = testsRun + 1
  /\ UNCHANGED <<nProducts, shop, fixture, authFile, cart, faults, workers>>
  /\ Interleave(w)

\* LoginPage.open: await this.page.goto('/')
loginSuite_open(w) ==
  /\ proc[w].pc = "lg_open"
  /\ \E r \in EngineOutcomes(1) :
       /\ Spend(r)
       /\ IF r = "ok"
          THEN /\ page' = [page EXCEPT ![w] = Navigate("login")]
               /\ proc' = [proc EXCEPT ![w].pc = CASE "username" \in Fills(proc[w].test) ->
                                                        "lg_username"
                                                   [] "password" \in Fills(proc[w].test) ->
                                                        "lg_password"
                                                   [] OTHER -> "lg_call",
                                     ![w].stmt = 1,
                                     ![w].phase = "test"]
               /\ log' = log
          ELSE /\ page' = page
               /\ Fail(w, r, "open")
  /\ UNCHANGED <<nProducts, shop, fixture, authFile, cart, testsRun, workers>>
  /\ Interleave(w)

\* login is called, or fillUsername alone; await this.usernameInput.fill(username)
login_fillUsername(w) ==
  /\ proc[w].pc = "lg_username"
  /\ \E r \in EngineOutcomes(LoginFormCount(w)) :
       /\ Spend(r)
       /\ LET l == IF ViaLogin(proc[w].test) THEN Enter(log[w], "login") ELSE log[w] IN
          IF r = "ok"
          THEN /\ page' = [page EXCEPT ![w].username = TestCredentials(proc[w].test).username]
               /\ proc' = [proc EXCEPT ![w].pc = IF "password" \in Fills(proc[w].test)
                                                 THEN "lg_password" ELSE "lg_click"]
               /\ log' = [log EXCEPT ![w] = Did(l, "fillUsername")]
          ELSE /\ page' = page
               /\ FailFrom(w, l, r, "fillUsername")
  /\ UNCHANGED <<nProducts, shop, fixture, authFile, cart, testsRun, workers>>
  /\ Interleave(w)

\* a login that catches the failure of its second fill and goes on
login_fillPassword_swallowing(w) ==
  /\ proc[w].pc = "lg_password"
  /\ \E r \in EngineOutcomes(LoginFormCount(w)) :
       /\ Spend(r)
       /\ page' = [page EXCEPT ![w].password =
                      IF r = "ok" THEN TestCredentials(proc[w].test).password ELSE @]
       /\ proc' = [proc EXCEPT ![w].pc = "lg_click"]
       /\ log' = [log EXCEPT ![w] =
                    IF r = "ok" THEN Did(@, "fillPassword")
                    ELSE Raised(Did(@, "fillPassword"), ErrorKind(r), "fillPassword", r)]
  /\ UNCHANGED <<nProducts, shop, fixture, authFile, cart, testsRun, workers>>
  /\ Interleave(w)

\* login: await this.passwordInput.fill(password)
login_fillPassword(w) ==
  /\ proc[w].pc = "lg_password"
  /\ \E r \in EngineOutcomes(LoginFormCount(w)) :
       /\ Spend(r)
       /\ IF r = "ok"
          THEN /\ page' = [page EXCEPT ![w].password = TestCredentials(proc[w].test).password]
               /\ proc' = [proc EXCEPT ![w].pc = "lg_click"]
               /\ log' = [log EXCEPT ![w] = Did(@, "fillPassword")]
          ELSE /\ page' = page
               /\ Fail(w, r, "fillPassword")
  /\ UNCHANGED <<nProducts, shop, fixture, authFile, cart, testsRun, workers>>
  /\ Interleave(w)

\* login: await this.loginButton.click(), after which login returns; or
\* clickLoginButton alone
login_clickLoginButton(w) ==
  /\ proc[w].pc = "lg_click"
  /\ \E r \in EngineOutcomes(LoginFormCount(w)) :
       /\ Spend(r)
       /\ IF r = "ok"
          THEN /\ page' = [page EXCEPT ![w] = LoginResponse(@)]
               /\ proc' = [proc EXCEPT ![w].pc = CASE proc[w].test = "valid_login" ->
                                                        "lg_waitForInventoryPage"
                                                   [] proc[w].test \in SetupRuns ->
                                                        "su_waitForURL"
                                                   [] proc[w].test = "whitespace" ->
                                                        "ws_isErrorMessageDisplayed"
                                                   [] OTHER -> "lg_call",
                                     ![w].stmt = 1]
               /\ log' = [log EXCEPT ![w] = IF ViaLogin(proc[w].test)
                                            THEN Return(Did(@, "clickLoginButton")) ELSE @]
          ELSE /\ page' = page
               /\ Fail(w, r, "clickLoginButton")
  /\ UNCHANGED <<nProducts, shop, fixture, authFile, cart, testsRun, workers>>
  /\ Interleave(w)

\* the statements of 'should display error message with invalid username' after
\* the login: what is called, how (awaited, synchronous, or called without
\* await), and the matcher applied to what expect receives
InvalidUsernameScript == <<
  [line |-> 122, op |-> "isErrorMessageDisplayed", call |-> "await",
   matcher |-> "toBeTruthy", expected |-> <<>>, negated |-> FALSE],
  [line |-> 125, op |-> "getErrorMessage", call |-> "await",
   matcher |-> "toContain", expected |-> <<"Username and password do not match">>,
   negated |-> FALSE],
  [line |-> 129, op |-> "page.url", call |-> "sync",
   matcher |-> "toContain", expected |-> <<"saucedemo.com">>, negated |-> FALSE],
  [line |-> 130, op |-> "getCurrentURL", call |-> "bare",
   matcher |-> "toContain", expected |-> <<"inventory.html">>, negated |-> TRUE],
  [line |-> 131, op |-> "pageTitle", call |-> "sync",
   matcher |-> "toBe", expected |-> <<"Swag Labs">>, negated |-> FALSE] >>

\* InventoryPage, CartPage, CheckoutStepTwoPage, CheckoutCompletePage queries
isCartBadgeVisible(w) == LocatorIsVisible(BadgeCount(w))

isPonyExpressImageVisible(w) == LocatorIsVisible(CompleteScreenCount(w))

isCheckoutButtonEnabled(w) == LocatorIsEnabled(CheckoutButtonCount(w))

isFinishButtonEnabled(w) == LocatorIsEnabled(FinishButtonCount(w))

isBackHomeButtonEnabled(w) == LocatorIsEnabled(CompleteScreenCount(w))

\* CheckoutCompletePage.isCheckoutSuccessful: header, text, image and button
\* are each asked isVisible, and the four answers are and-ed
isCheckoutSuccessful(w) ==
  /\ LocatorIsVisible(CompleteScreenCount(w)) = "true"
  /\ LocatorIsVisible(CompleteScreenCount(w)) = "true"
  /\ isPonyExpressImageVisible(w) = "true"
  /\ LocatorIsVisible(CompleteScreenCount(w)) = "true"

\* the statements after clickFinish, with a header compared for equality
CompleteScript_exactHeader == <<
  [line |-> 153, op |-> "getCurrentURL", call |-> "await",
   matcher |-> "toContain", expected |-> <<"checkout-complete.html">>, negated |-> FALSE],
  [line |-> 154, op |-> "getPageTitle", call |-> "await",
   matcher |-> "toBe", expected |-> <<"Checkout: Complete!">>, negated |-> FALSE],
  [line |-> 157, op |-> "getCompleteHeader", call |-> "await",
   matcher |-> "toBe", expected |-> <<"Thank you for your order">>, negated |-> FALSE],
  [line |-> 159, op |-> "isPonyExpressImageVisible", call |-> "await",
   matcher |-> "toBeTruthy", expected |-> <<>>, negated |-> FALSE],
  [line |-> 160, op |-> "isCheckoutSuccessful", call |-> "await",
   matcher |-> "toBeTruthy", expected |-> <<>>, negated |-> FALSE] >>

\* the statements of 'should complete full checkout process with 3 random
\* products' after clickFinish
CompleteScript == <<
  [line |-> 153, op |-> "getCurrentURL", call |-> "await",
   matcher |-> "toContain", expected |-> <<"checkout-complete.html">>, negated |-> FALSE],
  [line |-> 154, op |-> "getPageTitle", call |-> "await",
   matcher |-> "toBe", expected |-> <<"Checkout: Complete!">>, negated |-> FALSE],
  [line |-> 157, op |-> "getCompleteHeader", call |-> "await",
   matcher |-> "toContain", expected |-> <<"Thank you for your order">>, negated |-> FALSE],
  [line |-> 159, op |-> "isPonyExpressImageVisible", call |-> "await",
   matcher |-> "toBeTruthy", expected |-> <<>>, negated |-> FALSE],
  [line |-> 160, op |-> "isCheckoutSuccessful", call |-> "await",
   matcher |-> "toBeTruthy", expected |-> <<>>, negated |-> FALSE] >>

\* the statements of 'should complete checkout successfully' after clickFinish
SuccessfullyScript == <<
  [line |-> 313, op |-> "getCurrentURL", call |-> "await",
   matcher |-> "toContain", expected |-> <<"checkout-complete.html">>, negated |-> FALSE],
  [line |-> 314, op |-> "isCheckoutSuccessful", call |-> "await",
   matcher |-> "toBeTruthy", expected |-> <<>>, negated |-> FALSE] >>


\* the statements of 'should successfully login with valid standard_user
\* credentials' after waitForInventoryPage
ValidLoginScript == <<
  [line |-> 22, op |-> "getCurrentURL", call |-> "await",
   matcher |-> "toContain", expected |-> <<"inventory.html">>, negated |-> FALSE],
  [line |-> 23, op |-> "getPageHeaderTitle", call |-> "await",
   matcher |-> "toBe", expected |-> <<"Products">>, negated |-> FALSE] >>

\* the statements of the other negative tests after the click: the error is
\* displayed, its text contains the message, and (third test only) the URL is
\* not the inventory's
ErrorScript(line, message, checksUrl) ==
  << [line |-> line, op |-> "isErrorMessageDisplayed", call |-> "await",
      matcher |-> "toBeTruthy", expected |-> <<>>, negated |-> FALSE],
     [line |-> line + 3, op |-> "getErrorMessage", call |-> "await",
      matcher |-> "toContain", expected |-> message, negated |-> FALSE] >>
  \o IF checksUrl
     THEN << [line |-> line + 6, op |-> "page.url", call |-> "sync",
              matcher |-> "toContain", expected |-> <<"inventory.html">>,
              negated |-> TRUE] >>
     ELSE << >>

\* the clicks of 'should successfully complete checkout with 3 random items'
\* that are followed by reads of the URL and the title with no wait between
NavigatingClicks == {"goToCart", "clickContinue", "clickFinish"}

\* the statements that follow each of them
ReadsAfter(click) ==
  CASE click = "goToCart" ->
         << [line |-> 102, op |-> "getCurrentURL", call |-> "await",
             matcher |-> "toContain", expected |-> <<"cart.html">>, negated |-> FALSE],
            [line |-> 103, op |-> "getPageTitle", call |-> "await",
             matcher |-> "toBe", expected |-> <<"Your Cart">>, negated |-> FALSE] >>
    [] click = "clickContinue" ->
         << [line |-> 125, op |-> "getCurrentURL", call |-> "await",
             matcher |-> "toContain", expected |-> <<"checkout-step-two.html">>,
             negated |-> FALSE],
            [line |-> 126, op |-> "getPageTitle", call |-> "await",
             matcher |-> "toBe", expected |-> <<"Checkout: Overview">>,
             negated |-> FALSE] >>
    [] OTHER -> SubSeq(CompleteScript, 1, 2)

\* the statements of 'should have correct page title': the value read is the
\* pageTitle field of the page object
PageTitleScript == <<
  [line |-> 76, op |-> "pageTitle", call |-> "await",
   matcher |-> "toBe", expected |-> <<"Swag Labs">>, negated |-> FALSE] >>

\* the statements that follow the login, or the click on finish; an attempt
\* with fixture data is followed by the checks of the negative tests, with the
\* combination's expectedError
Script(test) ==
  CASE test = "complete3" -> CompleteScript
    [] test = "successfully" -> SuccessfullyScript
    [] test = "valid_login" -> ValidLoginScript
    [] test = "invalid_username" -> InvalidUsernameScript
    [] test = "invalid_password" ->
         ErrorScript(162, <<"Username and password do not match">>, FALSE)
    [] test = "empty_username" -> ErrorScript(196, <<"Username is required">>, FALSE)
    [] test = "empty_password" -> ErrorScript(230, <<"Password is required">>, TRUE)
    [] test \in NavigatingClicks -> ReadsAfter(test)
    [] test = "page_title" -> PageTitleScript
    [] OTHER -> ErrorScript(0, INVALID_CREDENTIALS[test].expectedError, TRUE)

\* ------------------------------------------------------------- auth.setup
\* const loginPage = new LoginPage(page), before any test runs
setup_newLoginPage(w) ==
  /\ w \in workers
  /\ workers = {1}
  /\ proc[w].pc = "idle"
  /\ testsRun = 0
  /\ \E t \in SetupRuns :
       proc' = [proc EXCEPT ![w] = [IdleProc EXCEPT !.pc = "lg_open",
                                      !.phase = "beforeEach", !.test = t]]
  /\ page' = [page EXCEPT ![w] = BlankPage]
  /\ log' = [log EXCEPT ![w] = EmptyLog]
  /\ testsRun' = testsRun + 1
  /\ UNCHANGED <<nProducts, shop, fixture, authFile, cart, faults, workers>>
  /\ Interleave(w)

\* a setup that goes on whatever the URL is
setup_waitForURL_notWaiting(w) ==
  /\ proc[w].pc = "su_waitForURL"
  /\ proc' = [proc EXCEPT ![w].pc = "su_storageState"]
  /\ UNCHANGED <<nProducts, shop, fixture, authFile, cart, page, log, testsRun, faults, workers>>
  /\ Interleave(w)

\* await page.waitForURL(/.*inventory.html/)
setup_waitForURL(w) ==
  /\ proc[w].pc = "su_waitForURL"
  /\ \E r \in EngineOutcomes(IF page[w].url = "inventory" THEN 1 ELSE 0) :
       /\ Spend(r)
       /\ IF r = "ok"
          THEN /\ proc' = [proc EXCEPT ![w].pc = "su_storageState"]
               /\ log' = log
          ELSE Fail(w, r, "waitForURL")
  /\ UNCHANGED <<nProducts, shop, fixture, authFile, cart, page, testsRun, workers>>
  /\ Interleave(w)

\* environment: the shop screens are shown to a logged-in session only
SessionAuthenticated(w) == page[w].url \in ShopScreens

\* await page.context().storageState({ path: authFile })
setup_storageState(w) ==
  /\ proc[w].pc = "su_storageState"
  /\ authFile' = [written |-> TRUE, authenticated |-> SessionAuthenticated(w)]
  /\ proc' = [proc EXCEPT ![w].pc = "passed"]
  /\ UNCHANGED <<nProducts, shop, fixture, cart, page, log, testsRun, faults, workers>>
  /\ Interleave(w)

\* LoginPage.waitForInventoryPage: await this.page.waitForURL(/.*inventory.html/)
loginTest_waitForInventoryPage(w) ==
  /\ proc[w].pc = "lg_waitForInventoryPage"
  /\ \E r \in EngineOutcomes(IF page[w].url = "inventory" THEN 1 ELSE 0) :
       /\ Spend(r)
       /\ IF r = "ok"
          THEN /\ proc' = [proc EXCEPT ![w].pc = "lg_call"]
               /\ log' = log
          ELSE Fail(w, r, "waitForInventoryPage")
  /\ UNCHANGED <<nProducts, shop, fixture, authFile, cart, page, testsRun, workers>>
  /\ Interleave(w)

\* a query that waits for the error container: waitFor, then isVisible
isErrorMessageDisplayed_waiting(w) ==
  IF ErrorContainerCount(w) > 0 THEN "true" ELSE "TimeoutError"

\* LoginPage queries
isErrorMessageDisplayed(w) == LocatorIsVisible(ErrorContainerCount(w))

isLoginButtonEnabled(w) == LocatorIsEnabled(LoginFormCount(w))

\* what the statement's call yields once settled
OpResult(w, op) ==
  CASE op = "isErrorMessageDisplayed" ->
         [raised |-> FALSE, kind |-> "bool",
          bool |-> isErrorMessageDisplayed(w) = "true", text |-> <<>>]
    [] op = "getErrorMessage" ->
         [raised |-> ErrorContainerCount(w) = 0, kind |-> "text", bool |-> FALSE,
          text |-> page[w].error]
    [] op = "pageTitle" ->
         [raised |-> FALSE, kind |-> "text", bool |-> FALSE, text |-> <<"Swag Labs">>]
    [] op = "getPageHeaderTitle" ->
         [raised |-> TitleCount(w) = 0, kind |-> "text", bool |-> FALSE,
          text |-> TitleText(w)]
    [] op = "getPageTitle" ->
         [raised |-> TitleCount(w) = 0, kind |-> "text", bool |-> FALSE,
          text |-> TitleText(w)]
    [] op = "getCompleteHeader" ->
         [raised |-> CompleteScreenCount(w) = 0, kind |-> "text", bool |-> FALSE,
          text |-> CompleteHeaderText(w)]
    [] op = "isPonyExpressImageVisible" ->
         [raised |-> FALSE, kind |-> "bool",
          bool |-> isPonyExpressImageVisible(w) = "true", text |-> <<>>]
    [] op = "isCheckoutSuccessful" ->
         [raised |-> FALSE, kind |-> "bool", bool |-> isCheckoutSuccessful(w),
          text |-> <<>>]
    [] OTHER ->
         [raised |-> FALSE, kind |-> "text", bool |-> FALSE, text |-> UrlOf(page[w].url)]

\* what expect is handed: the value of an awaited or synchronous call, the
\* Promise object of a call made without await
Received(call, res) ==
  IF call = "bare"
  THEN [kind |-> "promise", bool |-> FALSE, text |-> <<>>]
  ELSE [kind |-> res.kind, bool |-> res.bool, text |-> res.text]

\* the statement's call
loginTest_call(w) ==
  /\ proc[w].pc = "lg_call"
  /\ LET st == Script(proc[w].test)[proc[w].stmt]
         res == OpResult(w, st.op)
     IN IF st.call = "await" /\ res.raised
        THEN /\ proc' = Throw(w, "TimeoutError", st.op)
             /\ log' = [log EXCEPT ![w] = Rejected(Raised(@, "TimeoutError", st.op, "absent"))]
        ELSE /\ proc' = [proc EXCEPT ![w].pc = "lg_expect",
                                     ![w].received = Received(st.call, res)]
             /\ log' = log
  /\ UNCHANGED <<nProducts, shop, fixture, authFile, cart, page, testsRun, faults, workers>>
  /\ Interleave(w)

\* the matchers, on what they receive
toBeTruthy(rcv) == IF rcv.kind = "bool" THEN rcv.bool ELSE TRUE

toContain(rcv, expected) == rcv.kind = "text" /\ IsInfix(expected, rcv.text)

toBe(rcv, expected) == rcv.kind = "text" /\ rcv.text = expected

Matches(st, rcv) ==
  LET m == CASE st.matcher = "toBeTruthy" -> toBeTruthy(rcv)
             [] st.matcher = "toContain" -> toContain(rcv, st.expected)
             [] OTHER -> toBe(rcv, st.expected)
  IN IF st.negated THEN ~m ELSE m

\* the statement's expect(...)
loginTest_expect(w) ==
  /\ proc[w].pc = "lg_expect"
  /\ LET st == Script(proc[w].test)[proc[w].stmt]
         l == [log[w] EXCEPT !.asserted =
                 Append(@, [line |-> st.line, op |-> st.op,
                            consumed |-> proc[w].received.kind # "promise"])]
     IN IF Matches(st, proc[w].received)
        THEN /\ proc' = [proc EXCEPT
                           ![w].pc = IF proc[w].stmt < Len(Script(proc[w].test))
                                     THEN "lg_call" ELSE "passed",
                           ![w].stmt = @ + 1]
             /\ log' = [log EXCEPT ![w] = l]
        ELSE /\ proc' = Throw(w, "AssertionError", st.op)
             /\ log' = [log EXCEPT ![w] = Rejected(Raised(l, "AssertionError", st.op, "ok"))]
  /\ UNCHANGED <<nProducts, shop, fixture, authFile, cart, page, testsRun, faults, workers>>
  /\ Interleave(w)

\* --------------------------------- 'should handle whitespace in username'
\* const isErrorDisplayed = await loginPage.isErrorMessageDisplayed()
whitespaceTest_isErrorMessageDisplayed(w) ==
  /\ proc[w].pc = "ws_isErrorMessageDisplayed"
  /\ proc' = [proc EXCEPT ![w].pc = "ws_expect",
                          ![w].received =
                            Received("await", OpResult(w, "isErrorMessageDisplayed"))]
  /\ UNCHANGED <<nProducts, shop, fixture, authFile, cart, page, log, testsRun, faults, workers>>
  /\ Interleave(w)

\* a test that expects the login to have failed, whatever it has seen
whitespaceTest_branch_strict(isErrorDisplayed) ==
  [line |-> 304, op |-> "page.url", call |-> "sync",
   matcher |-> "toContain", expected |-> <<"inventory.html">>, negated |-> TRUE]

\* if (isErrorDisplayed) expect(page.url()).not.toContain('inventory.html')
\* else expect(page.url()).toContain('inventory.html')
whitespaceTest_branch(isErrorDisplayed) ==
  [line |-> IF isErrorDisplayed THEN 304 ELSE 308, op |-> "page.url", call |-> "sync",
   matcher |-> "toContain", expected |-> <<"inventory.html">>, negated |-> isErrorDisplayed]

\* the expect of the branch taken
whitespaceTest_expect(w) ==
  /\ proc[w].pc = "ws_expect"
  /\ LET st == whitespaceTest_branch(proc[w].received.bool)
         rcv == Received(st.call, OpResult(w, st.op))
         l == [log[w] EXCEPT !.asserted =
                 Append(@, [line |-> st.line, op |-> st.op, consumed |-> TRUE])]
     IN IF Matches(st, rcv)
        THEN /\ proc' = [proc EXCEPT ![w].pc = "passed", ![w].received = rcv]
             /\ log' = [log EXCEPT ![w] = l]
        ELSE /\ proc' = Throw(w, "AssertionError", st.op)
             /\ log' = [log EXCEPT ![w] = Rejected(Raised(l, "AssertionError", st.op, "ok"))]
  /\ UNCHANGED <<nProducts, shop, fixture, authFile, cart, page, testsRun, faults, workers>>
  /\ Interleave(w)

\* ------------------------------------------- clicks that navigate, in steps
\* the screen the click is made on, and (environment) the screen it leads to
ClickOrigin(click) ==
  CASE click = "goToCart" -> "inventory"
    [] click = "clickContinue" -> "step1"
    [] OTHER -> "step2"

ClickDestination(click) ==
  CASE click = "goToCart" -> "cart"
    [] click = "clickContinue" -> "step2"
    [] OTHER -> "complete"

\* a test that calls the click without await
AwaitsClick_not(click) == FALSE

\* await pm.inventoryPage.goToCart(); await pm.checkoutStepOnePage.clickContinue();
\* await pm.checkoutStepTwoPage.clickFinish()
AwaitsClick(click) == TRUE

\* this.<button>.click(): the engine clicks the button, and the application
\* starts the navigation within the click
navigatingClick_click(w) ==
  /\ proc[w].pc = "nv_click"
  /\ \E r \in EngineOutcomes(IF page[w].url = ClickOrigin(proc[w].test) THEN 1 ELSE 0) :
       /\ Spend(r)
       /\ IF r = "ok"
          THEN /\ page' = [page EXCEPT ![w].navigating = ClickDestination(proc[w].test)]
               /\ proc' = [proc EXCEPT ![w].pc = IF AwaitsClick(proc[w].test)
                                                 THEN "nv_await" ELSE "lg_call",
                                       ![w].stmt = 1]
               /\ log' = log
          ELSE /\ page' = page
               /\ Fail(w, r, proc[w].test)
  /\ UNCHANGED <<nProducts, shop, fixture, authFile, cart, testsRun, workers>>
  /\ Interleave(w)

\* environment: the navigation commits; the page is on the screen it led to
navigationCommits(w) ==
  /\ page[w].navigating # "none"
  /\ page' = [page EXCEPT ![w] = IF @.navigating = "step2" THEN ContinueFrom(@)
                                  ELSE Navigate(@.navigating)]
  /\ cart' = IF page[w].navigating = "complete" THEN <<>> ELSE cart
  /\ UNCHANGED <<nProducts, shop, fixture, authFile, proc, log, testsRun, faults, workers>>
  /\ Interleave(w)

\* environment (engine): the promise of a click resolves once the navigation
\* the click started has committed; the awaiting test goes on
navigatingClick_resolve(w) ==
  /\ proc[w].pc = "nv_await"
  /\ page[w].navigating = "none"
  /\ proc' = [proc EXCEPT ![w].pc = "lg_call"]
  /\ UNCHANGED <<nProducts, shop, fixture, authFile, cart, page, log, testsRun, faults, workers>>
  /\ Interleave(w)

\* ------------------------------------------------------------ state probes
VisibilityProbes == {"isErrorMessageDisplayed", "isCartBadgeVisible",
                     "isPonyExpressImageVisible"}

EnabledProbes == {"isLoginButtonEnabled", "isCheckoutButtonEnabled",
                  "isFinishButtonEnabled", "isBackHomeButtonEnabled"}

\* the badge reads of the page objects a PageManager holds
BadgeReads == {"getCartCount", "getCartBadgeCount"}

ProbeResult(w, name) ==
  CASE name = "isErrorMessageDisplayed" -> isErrorMessageDisplayed(w)
    [] name = "isCartBadgeVisible" -> isCartBadgeVisible(w)
    [] name = "isPonyExpressImageVisible" -> isPonyExpressImageVisible(w)
    [] name = "isLoginButtonEnabled" -> isLoginButtonEnabled(w)
    [] name = "isCheckoutButtonEnabled" -> isCheckoutButtonEnabled(w)
    [] name = "isFinishButtonEnabled" -> isFinishButtonEnabled(w)
    [] name \in BadgeReads -> "number"
    [] OTHER -> isBackHomeButtonEnabled(w)

\* the number a badge read answers with (0 for the other probes)
ProbeCount(w, name) ==
  CASE name = "getCartCount" -> getCartCount(w)
    [] name = "getCartBadgeCount" -> getCartBadgeCount(w)
    [] OTHER -> 0

\* whether the probe's element is on the page
ProbeRendered(w, name) ==
  CASE name = "isErrorMessageDisplayed" -> ErrorContainerCount(w) > 0
    [] name = "isCartBadgeVisible" -> BadgeCount(w) > 0
    [] name = "isPonyExpressImageVisible" -> CompleteScreenCount(w) > 0
    [] name = "isLoginButtonEnabled" -> LoginFormCount(w) > 0
    [] name = "isCheckoutButtonEnabled" -> CheckoutButtonCount(w) > 0
    [] name = "isFinishButtonEnabled" -> FinishButtonCount(w) > 0
    [] name \in BadgeReads -> BadgeCount(w) > 0
    [] OTHER -> CompleteScreenCount(w) > 0

\* the positions between two statements of a test, where a test may probe
ProbePoints == {"test", "t_getCartCount", "t_goToCart", "t_proceedToCheckout",
                "t_waitForPageLoad", "s1_firstName", "t_clickFinish",
                "lg_username", "lg_call"}

\* await <page object>.<probe>(), once more or for the first time
probe(w) ==
  /\ proc[w].pc \in ProbePoints
  /\ workers = {1}
  /\ Len(probes[w]) < MaxProbes
  /\ \E name \in VisibilityProbes \cup EnabledProbes \cup BadgeReads :
       /\ IF probes[w] = <<>> THEN TRUE ELSE probes[w][1].name = name
       /\ name \in BadgeReads => proc[w].test \in CheckoutTests
       /\ LET res == ProbeResult(w, name) IN
            /\ probes' = [probes EXCEPT ![w] =
                            Append(@, [name |-> name, rendered |-> ProbeRendered(w, name),
                                       result |-> res, count |-> ProbeCount(w, name)])]
            /\ IF res = "TimeoutError"
               THEN /\ proc' = Throw(w, "TimeoutError", name)
                    /\ log' = [log EXCEPT ![w] = Rejected(Raised(@, "TimeoutError", name, "absent"))]
               ELSE UNCHANGED <<proc, log>>
  /\ UNCHANGED <<nProducts, shop, fixture, authFile, cart, page, overlap, testsRun, faults, workers>>

\* ------------------------------------------- the wait-for-navigation calls
\* the four page-object methods that await page.waitForURL
WaitCalls == {"CheckoutStepOnePage.waitForPageLoad",
              "CheckoutStepTwoPage.waitForCheckoutComplete",
              "CheckoutCompletePage.waitForInventoryPage",
              "LoginPage.waitForInventoryPage"}

\* the screen whose URL the call's pattern matches
WaitTarget(call) ==
  CASE call = "CheckoutStepOnePage.waitForPageLoad" -> "step1"
    [] call = "CheckoutStepTwoPage.waitForCheckoutComplete" -> "complete"
    [] OTHER -> "inventory"

\* environment: the screen the navigation awaited starts from
WaitOrigin(call) ==
  CASE call = "CheckoutStepOnePage.waitForPageLoad" -> "cart"
    [] call = "CheckoutStepTwoPage.waitForCheckoutComplete" -> "step2"
    [] call = "CheckoutCompletePage.waitForInventoryPage" -> "complete"
    [] OTHER -> "login"

\* environment (engine): a timeout of 0 is no timeout
NoTimeout == 0

\* environment: the navigation timeout of the runner's configuration, which
\* waitForURL falls back to: none unless the configuration sets one
DefaultNavigationTimeouts == {NoTimeout, 10000}

\* every call passing { timeout: 10000 }
WaitTimeouts_allTen(call) == {10000}

\* the timeout of the call's waitForURL, in milliseconds: its { timeout }
\* option, the configuration's where it passes none
WaitTimeouts(call) ==
  IF call = "LoginPage.waitForInventoryPage" THEN DefaultNavigationTimeouts ELSE {10000}

\* the method is called on a page that is on the screen before the navigation
waitForURL_call(w) ==
  /\ w \in workers
  /\ proc[w].pc = "idle"
  /\ testsRun < MaxTests
  /\ \E call \in WaitCalls : \E ms \in WaitTimeouts(call) :
       /\ proc' = [proc EXCEPT ![w] = [IdleProc EXCEPT !.pc = "waitForURL", !.phase = "test",
                                                     !.test = call, !.timeout = ms]]
       /\ page' = [page EXCEPT ![w] = Navigate(WaitOrigin(call))]
  /\ log' = [log EXCEPT ![w] = EmptyLog]
  /\ testsRun' = testsRun + 1
  /\ UNCHANGED <<nProducts, shop, fixture, authFile, cart, faults, workers>>
  /\ Interleave(w)

\* environment: the navigation awaited completes
navigationCompletes(w) ==
  /\ proc[w].pc = "waitForURL"
  /\ page[w].url # WaitTarget(proc[w].test)
  /\ page' = [page EXCEPT ![w] = Navigate(WaitTarget(proc[w].test))]
  /\ UNCHANGED <<nProducts, shop, fixture, authFile, cart, proc, log, testsRun, faults, workers>>
  /\ Interleave(w)

\* environment: time passes while the call is pending
waitForURL_tick(w) ==
  /\ proc[w].pc = "waitForURL"
  /\ page[w].url # WaitTarget(proc[w].test)
  /\ proc[w].timeout # NoTimeout => proc[w].elapsed < proc[w].timeout
  /\ proc[w].elapsed < MaxElapsed
  /\ proc' = [proc EXCEPT ![w].elapsed = @ + TickMs]
  /\ UNCHANGED <<nProducts, shop, fixture, authFile, cart, page, log, testsRun, faults, workers>>
  /\ Interleave(w)

\* the URL matches: the promise resolves and the method returns
waitForURL_resolve(w) ==
  /\ proc[w].pc = "waitForURL"
  /\ page[w].url = WaitTarget(proc[w].test)
  /\ proc' = [proc EXCEPT ![w].pc = "passed"]
  /\ UNCHANGED <<nProducts, shop, fixture, authFile, cart, page, log, testsRun, faults, workers>>
  /\ Interleave(w)

\* the timeout has passed: the promise is rejected and the method throws
waitForURL_reject(w) ==
  /\ proc[w].pc = "waitForURL"
  /\ page[w].url # WaitTarget(proc[w].test)
  /\ proc[w].timeout # NoTimeout /\ proc[w].elapsed >= proc[w].timeout
  /\ proc' = Throw(w, "TimeoutError", proc[w].test)
  /\ log' = [log EXCEPT ![w] = Rejected(Raised(@, "TimeoutError", proc[w].test, "absent"))]
  /\ UNCHANGED <<nProducts, shop, fixture, authFile, cart, page, testsRun, faults, workers>>
  /\ Interleave(w)

\* ------------------------------------------------------------ specification
InitCommon ==
  /\ cart = <<>>
  /\ fixture = NoCall
  /\ shop = DefaultShop
  /\ authFile = NoAuthFile
  /\ page = [w \in Workers |-> BlankPage]
  /\ proc = [w \in Workers |-> IdleProc]
  /\ log = [w \in Workers |-> EmptyLog]
  /\ overlap = [w \in Workers |-> FALSE]
  /\ probes = [w \in Workers |-> <<>>]
  /\ testsRun = 0

\* one worker runs the tests one after the other
Init ==
  /\ InitCommon
  /\ nProducts \in 0..MaxProducts
  /\ faults = MaxFaults
  /\ workers = {1}

Next ==
  \E w \in Workers :
    \/ beforeEach_newPageManager(w)
    \/ beforeEach_open(w)
    \/ beforeEach_goToCart(w)
    \/ beforeEach_waitForURL(w)
    \/ beforeEach_getCartItemCount(w)
    \/ beforeEach_removeItem(w)
    \/ beforeEach_loopDone(w)
    \/ addRandomProductsToCart_call(w)
    \/ generateRandomUniqueIndices_draw(w)
    \/ generateRandomUniqueIndices_return(w)
    \/ addRandomProductsToCart_getProductDetails(w)
    \/ addRandomProductsToCart_addProductToCartByIndex(w)
    \/ addRandomProductsToCart_return(w)
    \/ test_getCartCount(w)
    \/ test_goToCart(w)
    \/ test_cartItems(w)
    \/ test_orderItems(w)
    \/ test_proceedToCheckout(w)
    \/ test_waitForPageLoad(w)
    \/ fillCheckoutInformation_firstName(w)
    \/ fillCheckoutInformation_lastName(w)
    \/ fillCheckoutInformation_postalCode(w)
    \/ clickContinue(w)
    \/ getPriceSummary_getSubtotal(w)
    \/ getPriceSummary_getTax(w)
    \/ getPriceSummary_getTotal(w)
    \/ test_expectPriceSummary(w)
    \/ isPriceCalculationCorrect_compare(w)
    \/ clickFinish(w)
    \/ endTest(w)
    \/ loginSuite_newLoginPage(w)
    \/ loginSuite_open(w)
    \/ login_fillUsername(w)
    \/ login_fillPassword(w)
    \/ login_clickLoginButton(w)
    \/ loginTest_waitForInventoryPage(w)
    \/ setup_newLoginPage(w)
    \/ setup_waitForURL(w)
    \/ setup_storageState(w)
    \/ loginTest_call(w)
    \/ loginTest_expect(w)
    \/ probe(w)

Spec == Init /\ [][Next]_vars

\* the fixture helpers, called any number of times
InitFixtures ==
  /\ InitCommon
  /\ nProducts = 0
  /\ faults = 0
  /\ workers = {1}

NextFixtures ==
  \/ fixtures_getRandomValidUser
  \/ fixtures_generateRandomCheckoutInfo

SpecFixtures == InitFixtures /\ [][NextFixtures]_vars

\* generateRandomUniqueIndices(max, count) on its own, for any max and count, and
\* as addRandomProductsToCart(count) calls it on an inventory of max products;
\* a draw that is due is made
InitIndices ==
  /\ cart = <<>>
  /\ authFile = NoAuthFile
  /\ fixture = NoCall
  /\ shop = DefaultShop
  /\ nProducts \in 0..MaxProducts
  /\ page = [w \in Workers |-> IF w = 1 THEN Navigate("inventory") ELSE BlankPage]
  /\ \E count \in 0..(MaxProducts + 1), direct \in BOOLEAN :
       /\ proc = [w \in Workers |->
                    IF w = 1
                    THEN [IdleProc EXCEPT !.pc = IF direct THEN "arp_generate" ELSE "test",
                                          !.phase = "test", !.test = "complete3",
                                          !.count = count,
                                          !.totalProducts = IF direct THEN nProducts ELSE 0,
                                          !.pm = PageManager(w)]
                    ELSE IdleProc]
       /\ log = [w \in Workers |->
                   IF w = 1 /\ direct
                   THEN Enter(EmptyLog, "generateRandomUniqueIndices")
                   ELSE EmptyLog]
  /\ overlap = [w \in Workers |-> FALSE]
  /\ probes = [w \in Workers |-> <<>>]
  /\ testsRun = MaxTests
  /\ faults = 0
  /\ workers = {1}

NextIndices ==
  \E w \in Workers :
    \/ addRandomProductsToCart_call(w)
    \/ generateRandomUniqueIndices_draw(w)
    \/ generateRandomUniqueIndices_return(w)

SpecIndices == InitIndices /\ [][NextIndices]_vars /\ WF_vars(NextIndices)

\* pm.cartPage.clearCart() called on the cart screen, the cart holding n items;
\* the call is run to its end
InitClearCart ==
  /\ authFile = NoAuthFile
  /\ fixture = NoCall
  /\ shop = DefaultShop
  /\ nProducts \in 0..MaxProducts
  /\ cart \in {[x \in 1..n |-> x - 1] : n \in 0..nProducts}
               \cup {[x \in 1..n |-> nProducts - x] : n \in 0..nProducts}
  /\ page = [w \in Workers |-> IF w = 1 THEN Navigate("cart") ELSE BlankPage]
  /\ proc = [w \in Workers |->
               IF w = 1
               THEN [IdleProc EXCEPT !.pc = "cc_getCartItemCount", !.phase = "test",
                                     !.test = "clearCart", !.pm = PageManager(w)]
               ELSE IdleProc]
  /\ log = [w \in Workers |->
              IF w = 1
              THEN [Enter(EmptyLog, "clearCart") EXCEPT !.cartAtCall = cart]
              ELSE EmptyLog]
  /\ overlap = [w \in Workers |-> FALSE]
  /\ probes = [w \in Workers |-> <<>>]
  /\ testsRun = MaxTests
  /\ faults \in {0, MaxFaults}
  /\ workers = {1}

NextClearCart ==
  \E w \in Workers :
    \/ clearCart_getCartItemCount(w)
    \/ clearCart_removeItemByIndex(w)
    \/ clearCart_return(w)

SpecClearCart == InitClearCart /\ [][NextClearCart]_vars /\ WF_vars(NextClearCart)

\* the checkout scenario at one of its three clicks that navigate, the form of
\* step one filled as fillCheckoutInformation leaves it
InitNavigation ==
  /\ authFile = NoAuthFile
  /\ fixture = NoCall
  /\ shop = DefaultShop
  /\ nProducts \in itemCountToSelect..MaxProducts
  /\ cart \in {[x \in 1..itemCountToSelect |-> x - 1],
               [x \in 1..itemCountToSelect |-> nProducts - x]}
  /\ \E click \in NavigatingClicks :
       /\ proc = [w \in Workers |->
                    IF w = 1
                    THEN [IdleProc EXCEPT !.pc = "nv_click", !.phase = "test",
                                          !.test = click, !.count = itemCountToSelect,
                                          !.pm = PageManager(w)]
                    ELSE IdleProc]
       /\ page = [w \in Workers |->
                    IF w # 1 THEN BlankPage
                    ELSE IF click = "clickContinue"
                    THEN [Navigate("step1") EXCEPT
                            !.firstName = CHECKOUT_INFO_VALID.firstName,
                            !.lastName = CHECKOUT_INFO_VALID.lastName,
                            !.postalCode = CHECKOUT_INFO_VALID.postalCode]
                    ELSE IF click = "clickFinish"
                    THEN [Navigate("step2") EXCEPT !.labels = OverviewLabels]
                    ELSE Navigate("inventory")]
  /\ log = [w \in Workers |-> EmptyLog]
  /\ overlap = [w \in Workers |-> FALSE]
  /\ probes = [w \in Workers |-> <<>>]
  /\ testsRun = MaxTests
  /\ faults \in 0..MaxFaults
  /\ workers = {1}

NextNavigation ==
  \E w \in Workers :
    \/ navigatingClick_click(w)
    \/ navigationCommits(w)
    \/ navigatingClick_resolve(w)
    \/ loginTest_call(w)
    \/ loginTest_expect(w)
    \/ endTest(w)

SpecNavigation == InitNavigation /\ [][NextNavigation]_vars

\* two workers run tests of the checkout suite side by side, each on a page of
\* its own, both in the one authenticated session; the engine times out only on
\* elements that are not there
InitPar ==
  /\ InitCommon
  /\ nProducts = ParProducts
  /\ faults = 0
  /\ workers = Workers

NextPar ==
  \E w \in Workers :
    \/ beforeEach_newPageManager(w)
    \/ beforeEach_open(w)
    \/ beforeEach_goToCart(w)
    \/ beforeEach_waitForURL(w)
    \/ beforeEach_getCartItemCount(w)
    \/ beforeEach_removeItem(w)
    \/ beforeEach_loopDone(w)
    \/ addRandomProductsToCart_call(w)
    \/ generateRandomUniqueIndices_draw(w)
    \/ generateRandomUniqueIndices_return(w)
    \/ addRandomProductsToCart_getProductDetails(w)
    \/ addRandomProductsToCart_addProductToCartByIndex(w)
    \/ addRandomProductsToCart_return(w)
    \/ test_getCartCount(w)
    \/ test_goToCart(w)
    \/ test_cartItems(w)
    \/ test_orderItems(w)
    \/ test_proceedToCheckout(w)
    \/ test_waitForPageLoad(w)
    \/ fillCheckoutInformation_firstName(w)
    \/ fillCheckoutInformation_lastName(w)
    \/ fillCheckoutInformation_postalCode(w)
    \/ clickContinue(w)
    \/ getPriceSummary_getSubtotal(w)
    \/ getPriceSummary_getTax(w)
    \/ getPriceSummary_getTotal(w)
    \/ test_expectPriceSummary(w)
    \/ isPriceCalculationCorrect_compare(w)
    \/ clickFinish(w)
    \/ loginTest_call(w)
    \/ loginTest_expect(w)
    \/ endTest(w)

SpecPar == InitPar /\ [][NextPar]_vars

\* one worker calls the wait-for-navigation methods, one call after the other
InitWaits ==
  /\ InitCommon
  /\ nProducts = MaxProducts
  /\ faults = 0
  /\ workers = {1}

NextWaits ==
  \E w \in Workers :
    \/ waitForURL_call(w)
    \/ navigationCompletes(w)
    \/ waitForURL_tick(w)
    \/ waitForURL_resolve(w)
    \/ waitForURL_reject(w)
    \/ endTest(w)

SpecWaits == InitWaits /\ [][NextWaits]_vars

\* one worker runs tests of the login suite, and login attempts with fixture
\* data, one after the other; the runner does not stop between two statements
InitLogin ==
  /\ InitCommon
  /\ nProducts = MaxProducts
  /\ faults = MaxFaults
  /\ workers = {1}

NextLogin ==
  \E w \in Workers :
    \/ loginSuite_newLoginPage(w)
    \/ loginSuite_open(w)
    \/ login_fillUsername(w)
    \/ login_fillPassword(w)
    \/ login_clickLoginButton(w)
    \/ loginTest_waitForInventoryPage(w)
    \/ setup_newLoginPage(w)
    \/ setup_waitForURL(w)
    \/ setup_storageState(w)
    \/ loginTest_call(w)
    \/ loginTest_expect(w)
    \/ endTest(w)

SpecLogin == InitLogin /\ [][NextLogin]_vars /\ WF_vars(NextLogin)

\* the tests of the login suite that check where the browser is and what it
\* shows, each run once against one build of the shop, after the new LoginPage
\* of its beforeEach
LoginChecks == {"page_title", "invalid_username", "whitespace"}

InitLoginChecks ==
  /\ nProducts = MaxProducts
  /\ shop \in Shops
  /\ fixture = NoCall
  /\ authFile = NoAuthFile
  /\ cart = <<>>
  /\ workers = {1}
  /\ faults \in {0, MaxFaults}
  /\ overlap = [w \in Workers |-> FALSE]
  /\ probes = [w \in Workers |-> <<>>]
  /\ testsRun = 1
  /\ page = [w \in Workers |-> BlankPage]
  /\ log = [w \in Workers |-> EmptyLog]
  /\ \E t \in LoginChecks :
       proc = [w \in Workers |->
                 IF w = 1 THEN [IdleProc EXCEPT !.pc = "lg_open", !.phase = "beforeEach",
                                                !.test = t]
                 ELSE IdleProc]

NextLoginChecks ==
  \E w \in Workers :
    \/ loginSuite_open(w)
    \/ login_fillUsername(w)
    \/ login_fillPassword(w)
    \/ login_clickLoginButton(w)
    \/ whitespaceTest_isErrorMessageDisplayed(w)
    \/ whitespaceTest_expect(w)
    \/ loginTest_call(w)
    \/ loginTest_expect(w)
    \/ endTest(w)

SpecLoginChecks == InitLoginChecks /\ [][NextLoginChecks]_vars

\* one run of 'should complete full checkout process with 3 random products':
\* the runner has made the PageManager, the shop has at least three products, the
\* session's cart is empty or holds what an earlier test left; the runner does
\* not stop between two statements of a test
InitScenarioD ==
  /\ nProducts \in itemCountToSelect..MaxProducts
  /\ cart \in {<<>>, <<0>>}
  /\ authFile = NoAuthFile
  /\ fixture = NoCall
  /\ shop = DefaultShop
  /\ page = [w \in Workers |-> BlankPage]
  /\ proc = [w \in Workers |->
              IF w = 1
              THEN [IdleProc EXCEPT !.pc = "be_open", !.phase = "beforeEach",
                                    !.test = "complete3", !.count = itemCountToSelect,
                                    !.pm = PageManager(w)]
              ELSE IdleProc]
  /\ log = [w \in Workers |-> EmptyLog]
  /\ overlap = [w \in Workers |-> FALSE]
  /\ probes = [w \in Workers |-> <<>>]
  /\ testsRun = MaxTests
  /\ faults = MaxFaults
  /\ workers = {1}

NextScenarioD ==
  \E w \in Workers :
    \/ beforeEach_open(w)
    \/ beforeEach_goToCart(w)
    \/ beforeEach_waitForURL(w)
    \/ beforeEach_getCartItemCount(w)
    \/ beforeEach_removeItem(w)
    \/ beforeEach_loopDone(w)
    \/ addRandomProductsToCart_call(w)
    \/ generateRandomUniqueIndices_draw(w)
    \/ generateRandomUniqueIndices_return(w)
    \/ addRandomProductsToCart_getProductDetails(w)
    \/ addRandomProductsToCart_addProductToCartByIndex(w)
    \/ addRandomProductsToCart_return(w)
    \/ test_getCartCount(w)
    \/ test_goToCart(w)
    \/ test_cartItems(w)
    \/ test_proceedToCheckout(w)
    \/ test_waitForPageLoad(w)
    \/ fillCheckoutInformation_firstName(w)
    \/ fillCheckoutInformation_lastName(w)
    \/ fillCheckoutInformation_postalCode(w)
    \/ clickContinue(w)
    \/ test_orderItems(w)
    \/ getPriceSummary_getSubtotal(w)
    \/ getPriceSummary_getTax(w)
    \/ getPriceSummary_getTotal(w)
    \/ test_expectPriceSummary(w)
    \/ isPriceCalculationCorrect_compare(w)
    \/ clickFinish(w)
    \/ loginTest_call(w)
    \/ loginTest_expect(w)
    \/ endTest(w)

SpecScenarioD == InitScenarioD /\ [][NextScenarioD]_vars /\ WF_vars(NextScenarioD)

\* an overview screen whose three summary labels hold a text drawn at will, and
\* a page object that reads the price summary from it
LabelChars == {"$", "1", "7", ".", "x"}

LabelTexts == UNION {[1..n -> LabelChars] : n \in 0..MaxLabelLen}

InitLabels ==
  /\ cart = <<>>
  /\ authFile = NoAuthFile
  /\ fixture = NoCall
  /\ shop = DefaultShop
  /\ nProducts = 0
  /\ faults = 0
  /\ workers = {1}
  /\ testsRun = 1
  /\ log = [w \in Workers |-> EmptyLog]
  /\ overlap = [w \in Workers |-> FALSE]
  /\ probes = [w \in Workers |-> <<>>]
  /\ proc = [w \in Workers |->
               IF w = 1
               THEN [IdleProc EXCEPT !.pc = "ps_subtotal", !.phase = "test",
                                     !.test = "labels",
                                     !.psCaller = "isPriceCalculationCorrect"]
               ELSE IdleProc]
  /\ \E t \in LabelTexts :
       page = [w \in Workers |->
                 IF w = 1
                 THEN [Navigate("step2") EXCEPT
                         !.labels = [subtotal |-> t, tax |-> t, total |-> t]]
                 ELSE BlankPage]

NextLabels ==
  \E w \in Workers :
    \/ getPriceSummary_getSubtotal(w)
    \/ getPriceSummary_getTax(w)
    \/ getPriceSummary_getTotal(w)
    \/ isPriceCalculationCorrect_compare(w)
    \/ endTest(w)

SpecLabels == InitLabels /\ [][NextLabels]_vars

\* products added by addProductToCartByIndex on the inventory screen, the cart
\* opened, one of them removed by its name and looked for
InitRemoveByName ==
  /\ cart = <<>>
  /\ authFile = NoAuthFile
  /\ fixture = NoCall
  /\ shop = DefaultShop
  /\ nProducts = MaxProducts
  /\ faults \in {0, MaxFaults}
  /\ workers = {1}
  /\ testsRun = 1
  /\ log = [w \in Workers |-> EmptyLog]
  /\ overlap = [w \in Workers |-> FALSE]
  /\ probes = [w \in Workers |-> <<>>]
  /\ proc = [w \in Workers |->
               IF w = 1
               THEN [IdleProc EXCEPT !.pc = "rn_add", !.phase = "test",
                                     !.test = "removeByName"]
               ELSE IdleProc]
  /\ page = [w \in Workers |-> IF w = 1 THEN Navigate("inventory") ELSE BlankPage]

NextRemoveByName ==
  \E w \in Workers :
    \/ inventory_addProductToCartByIndex(w)
    \/ inventory_goToCart(w)
    \/ removeItemByName(w)
    \/ isItemInCart_call(w)
    \/ endTest(w)

SpecRemoveByName == InitRemoveByName /\ [][NextRemoveByName]_vars

\* label texts with and without a currency amount, and (environment) the
\* amount each shows, in thousandths
SummaryTexts ==
  { <<>>,
    <<"T", "a", "x", ":", " ", "$">>,
    <<"1", "7">>,
    <<"T", "a", "x", ":", " ", "$", "0", ".", "1">>,
    <<"$", "0", ".", "1", "0", "4">>,
    <<"$", "1", ".", "2">>,
    <<"$", "1", ".", "3", "0">> }

AmountShown(text) ==
  CASE text = <<"T", "a", "x", ":", " ", "$", "0", ".", "1">> -> 100
    [] text = <<"$", "0", ".", "1", "0", "4">> -> 104
    [] text = <<"$", "1", ".", "2">> -> 1200
    [] text = <<"$", "1", ".", "3", "0">> -> 1300
    [] OTHER -> 0

\* an overview screen whose three summary labels each hold one of these texts,
\* and a page object on which isPriceCalculationCorrect is called
InitSummary ==
  /\ cart = <<>>
  /\ authFile = NoAuthFile
  /\ fixture = NoCall
  /\ shop = DefaultShop
  /\ nProducts = 0
  /\ faults = 0
  /\ workers = {1}
  /\ testsRun = 1
  /\ log = [w \in Workers |-> EmptyLog]
  /\ overlap = [w \in Workers |-> FALSE]
  /\ probes = [w \in Workers |-> <<>>]
  /\ proc = [w \in Workers |->
               IF w = 1
               THEN [IdleProc EXCEPT !.pc = "ps_subtotal", !.phase = "test",
                                     !.test = "summary",
                                     !.psCaller = "isPriceCalculationCorrect"]
               ELSE IdleProc]
  /\ \E s \in SummaryTexts, t \in SummaryTexts, u \in SummaryTexts :
       page = [w \in Workers |->
                 IF w = 1
                 THEN [Navigate("step2") EXCEPT
                         !.labels = [subtotal |-> s, tax |-> t, total |-> u]]
                 ELSE BlankPage]

SpecSummary == InitSummary /\ [][NextLabels]_vars

\* ------------------------------------------------------------------ claims
\* C1: once addRandomProductsToCart(k) has returned, it has returned exactly k
\* records, each the name and price of a displayed product, no two of the same
\* product; and the getCartCount() the test makes right after it reads k.
C1_returnsKDistinctAndBadgeReadsK ==
  \A w \in Workers :
    (log[w].composite = "addRandomProductsToCart" /\ log[w].outcome = "returned") =>
      /\ proc[w].count <= nProducts
      /\ Len(proc[w].added) = proc[w].count
      /\ \A x \in DOMAIN proc[w].added :
           \E p \in 0..(nProducts - 1) : proc[w].added[x] = getProductDetails(p)
      /\ \A x, y \in DOMAIN proc[w].added :
           x # y => proc[w].added[x].name # proc[w].added[y].name
      /\ Cardinality({proc[w].indices[x] : x \in DOMAIN proc[w].indices}) = proc[w].count
      /\ (proc[w].cartCount # -1 => proc[w].cartCount = proc[w].count)

\* three of four products were added and the badge was read
C1_witness ==
  \E w \in Workers :
    /\ log[w].composite = "addRandomProductsToCart" /\ log[w].outcome = "returned"
    /\ nProducts = 4 /\ proc[w].count = 3 /\ Len(proc[w].added) = 3
    /\ proc[w].cartCount = 3

\* C2: addRandomProductsToCart(k) with k above the number of products displayed
\* raises its own Error at the validation, before any index is drawn and before
\* any product is read or added, and the cart is as it was at the call.
C2_tooManyFailsFastCartUntouched ==
  \A w \in Workers :
    (log[w].composite = "addRandomProductsToCart" /\ proc[w].count > nProducts) =>
      /\ log[w].outcome = "threw"
      /\ log[w].raised = [kind |-> "Error", at |-> "validate"]
      /\ proc[w].error = log[w].raised
      /\ proc[w].pc = "failed"
      /\ ~log[w].drawn
      /\ proc[w].indices = <<>>
      /\ log[w].events = <<>>
      /\ cart = log[w].cartAtCall

\* three products asked of an inventory of two
C2_witness ==
  \E w \in Workers :
    /\ log[w].composite = "addRandomProductsToCart" /\ log[w].outcome = "threw"
    /\ nProducts = 2 /\ proc[w].count = 3
    /\ proc[w].error.kind = "Error"

\* C3: the cleanup of the checkout suite's beforeEach fails only when the engine
\* timed out on an element that was there, and a test body starts with the cart
\* empty and the inventory screen open.
C3_cleanupCompletesWithEmptyCart ==
  \A w \in Workers :
    /\ (proc[w].test \in CheckoutTests /\ proc[w].phase = "beforeEach"
          /\ proc[w].pc = "failed") => log[w].faulted
    /\ proc[w].pc = "test" => (cart = <<>> /\ page[w].url = "inventory")

\* the cleanup failed at a removal although no engine call had timed out
C3_witness ==
  \E w \in Workers :
    /\ proc[w].phase = "beforeEach" /\ proc[w].pc = "failed"
    /\ proc[w].error = [kind |-> "TimeoutError", at |-> "removeItemByIndex"]
    /\ ~log[w].faulted /\ faults = MaxFaults
    /\ proc[w].itemsInCart = 3 /\ proc[w].i = 2 /\ Len(cart) = 1

C4_interference ==
  \E w \in Workers :
    /\ overlap[w]
    /\ log[w].composite = "addRandomProductsToCart" /\ log[w].outcome = "returned"
    /\ Len(proc[w].added) = 3
    /\ proc[w].cartCount \notin {-1, itemCountToSelect}

\* C5: every assertion a test evaluates is handed the settled result of the
\* operation it is about: the operation's promise was awaited (or the call was
\* synchronous) before expect ran.
C5_resultsConsumedBeforeAssertion ==
  \A w \in Workers :
    \A x \in DOMAIN log[w].asserted : log[w].asserted[x].consumed

\* the assertion of line 130 ran on the promise of getCurrentURL
C5_witness ==
  \E w \in Workers :
    \E x \in DOMAIN log[w].asserted :
      /\ log[w].asserted[x].line = 130
      /\ log[w].asserted[x].op = "getCurrentURL"
      /\ ~log[w].asserted[x].consumed
      /\ proc[w].pc = "lg_call"

\* C6: the reads and add-actions of addRandomProductsToCart alternate, one pair
\* per selected index in the order the indices were drawn, the read first; each
\* add-action puts the selected product in the cart; no product gets two
\* add-actions; and the list returned holds at position j the name and price of
\* the j-th selected index.
C6_oneAddPerIndexInDrawOrder ==
  \A w \in Workers :
    LET ev == log[w].events
        ind == proc[w].indices
    IN /\ Len(ev) <= 2 * Len(ind)
       /\ \A x \in DOMAIN ev :
            /\ ev[x].op = IF x % 2 = 1 THEN "read" ELSE "add"
            /\ ev[x].index = ind[(x + 1) \div 2]
            /\ ev[x].product = ev[x].index
       /\ \A x, y \in DOMAIN ev :
            (x # y /\ ev[x].op = "add" /\ ev[y].op = "add") => ev[x].product # ev[y].product
       /\ Len(proc[w].added) = Len(ev) \div 2
       /\ \A x \in DOMAIN proc[w].added : proc[w].added[x] = getProductDetails(ind[x])
       /\ (log[w].composite = "addRandomProductsToCart" /\ log[w].outcome = "returned")
            => Len(ev) = 2 * Len(ind)

\* three indices drawn out of order, three pairs of read and add, then the return
C6_witness ==
  \E w \in Workers :
    /\ log[w].composite = "addRandomProductsToCart" /\ log[w].outcome = "returned"
    /\ proc[w].indices = <<2, 0, 3>>
    /\ Len(log[w].events) = 6
    /\ cart = <<2, 0, 3>>

\* C7: when a step of a composite (login, fillCheckoutInformation,
\* completeCheckoutStepOne, addRandomProductsToCart) has raised, that step is the
\* last one the composite started, the composite's promise is rejected, and the
\* caller holds the error the step raised: the test is at its failure.
C7_failedStepEndsComposite ==
  \A w \in Workers :
    (log[w].raised # NoError /\ log[w].raised.at \in Range(log[w].steps)) =>
      /\ log[w].composite \in {"login", "fillCheckoutInformation",
                               "completeCheckoutStepOne", "addRandomProductsToCart"}
      /\ log[w].outcome = "threw"
      /\ Last(log[w].steps) = log[w].raised.at
      /\ proc[w].error = log[w].raised
      /\ proc[w].pc = "failed"

\* login failed at its second fill
C7_witness ==
  \E w \in Workers :
    /\ log[w].composite = "login" /\ log[w].outcome = "threw"
    /\ log[w].steps = <<"fillUsername", "fillPassword">>
    /\ proc[w].error = [kind |-> "TimeoutError", at |-> "fillPassword"]
    /\ page[w].username = "invalid_user" /\ page[w].password = ""

\* C8: when addRandomProductsToCart has failed at its j-th add-action, the cart
\* holds what it held at the call followed by the j-1 products added before the
\* failure; and nothing leaves or enters the cart except by a removal of a
\* beforeEach cleanup, an add-action, or the finish of a checkout: the failure,
\* the end of the test and the start of the next one leave the cart as it is.
C8_failedAt(w) ==
  /\ log[w].composite = "addRandomProductsToCart" /\ log[w].outcome = "threw"
  /\ log[w].raised.at = "addProductToCartByIndex"

C8_noRollback ==
  /\ [](\A w \in Workers :
          C8_failedAt(w) =>
            cart = log[w].cartAtCall \o SubSeq(proc[w].indices, 1, proc[w].j - 1))
  /\ [][(\A w \in Workers : proc[w].pc \notin {"be_remove", "arp_add", "t_clickFinish"})
          => cart' = cart]_vars

\* the third add-action failed: the two products added before it are in the cart
C8_witness ==
  \E w \in Workers :
    /\ C8_failedAt(w)
    /\ proc[w].j = 3 /\ Len(proc[w].indices) = 3
    /\ cart = SubSeq(proc[w].indices, 1, 2)
    /\ proc[w].pc = "failed"

\* C9: a visibility probe whose element is not on the page answers false, the
\* first time and the second; the probe changes neither the page nor the cart
\* nor the position of the test.
C9_isVisibilityProbeOfAbsent(r) == r.name \in VisibilityProbes /\ ~r.rendered

C9_visibilityProbeFalseTwice ==
  /\ [](\A w \in Workers : \A x \in DOMAIN probes[w] :
          C9_isVisibilityProbeOfAbsent(probes[w][x]) => probes[w][x].result = "false")
  /\ [][\A w \in Workers :
          (Len(probes'[w]) = Len(probes[w]) + 1
             /\ C9_isVisibilityProbeOfAbsent(Last(probes'[w])))
          => (page' = page /\ cart' = cart /\ proc' = proc /\ log' = log)]_vars

\* isErrorMessageDisplayed twice in a row on a login screen that shows no error
C9_witness ==
  \E w \in Workers :
    /\ Len(probes[w]) = 2
    /\ \A x \in 1..2 :
         /\ probes[w][x].name = "isErrorMessageDisplayed"
         /\ ~probes[w][x].rendered
         /\ probes[w][x].result = "false"
    /\ proc[w].pc = "lg_username" /\ page[w].url = "login"

\* C10: an enabled probe whose element is not on the page answers false.
C10_enabledProbeOfAbsentIsFalse ==
  \A w \in Workers : \A x \in DOMAIN probes[w] :
    (probes[w][x].name \in EnabledProbes /\ ~probes[w][x].rendered)
      => probes[w][x].result = "false"

\* isCheckoutButtonEnabled on the inventory screen raised a TimeoutError
C10_witness ==
  \E w \in Workers :
    /\ probes[w] # <<>>
    /\ Last(probes[w]) = [name |-> "isCheckoutButtonEnabled", rendered |-> FALSE,
                           result |-> "TimeoutError", count |-> 0]
    /\ page[w].url = "inventory"
    /\ proc[w].error = [kind |-> "TimeoutError", at |-> "isCheckoutButtonEnabled"]

C11_witnessAbsent ==
  \E w \in Workers :
    /\ proc[w].pc = "test" /\ probes[w] # <<>>
    /\ Last(probes[w]).name = "getCartCount"
    /\ ~Last(probes[w]).rendered /\ Last(probes[w]).count = 0

C12_starts(t) == {i \in 1..(Len(t) - 1) : t[i] = "$" /\ IsDigit(t[i + 1])}

C12_digitsFrom(t, i) ==
  LET ends == {j \in i..Len(t) : \A x \in i..j : IsDigit(t[x])}
  IN IF ends = {} THEN 0 ELSE (CHOOSE j \in ends : \A k \in ends : k <= j) - i + 1

C12_isFirstAmount(t, a) ==
  IF C12_starts(t) = {} THEN a = Zero
  ELSE LET i == CHOOSE x \in C12_starts(t) : \A y \in C12_starts(t) : x <= y
           m == C12_digitsFrom(t, i + 1)
           dot == i + m + 1 <= Len(t) /\ t[i + m + 1] = "."
           f == IF dot THEN C12_digitsFrom(t, i + m + 2) ELSE 0
       IN /\ a.scale = f
          /\ a.mant = (ReadDigits(SubSeq(t, i + 1, i + m), 0) * Pow10(f))
                         + ReadDigits(SubSeq(t, i + m + 2, i + m + 1 + f), 0)

C12_firstCurrencyAmountOrZero ==
  \A w \in Workers :
    /\ proc[w].pc \in {"ps_tax", "ps_total", "ps_compare", "passed", "failed"} =>
         C12_isFirstAmount(page[w].labels.subtotal, proc[w].summary.subtotal)
    /\ proc[w].pc \in {"ps_total", "ps_compare", "passed", "failed"} =>
         C12_isFirstAmount(page[w].labels.tax, proc[w].summary.tax)
    /\ proc[w].pc \in {"ps_compare", "passed", "failed"} =>
         C12_isFirstAmount(page[w].labels.total, proc[w].summary.total)
    /\ proc[w].error.at \notin {"getSubtotal", "getTax", "getTotal"}

\* the three reads of the label "$1.7" gave 1.7
C12_witness ==
  /\ proc[1].pc = "ps_compare"
  /\ page[1].labels.total = <<"$", "1", ".", "7">>
  /\ proc[1].summary.subtotal = [mant |-> 17, scale |-> 1]
  /\ proc[1].summary.total = [mant |-> 17, scale |-> 1]

\* the reads of the label "$.7x", which has no amount, gave 0
C12_witnessNoAmount ==
  /\ proc[1].pc = "ps_compare"
  /\ page[1].labels.total = <<"$", ".", "7", "x">>
  /\ proc[1].summary.total = Zero

\* C13: once a test of the checkout suite has read the price summary of the
\* overview, the subtotal and the tax it read sum to the total it read, compared
\* in cents; the subtotal is the sum of the prices read on the inventory screen;
\* and isPriceCalculationCorrect never answers false.
C13_summaryRead(w) ==
  /\ proc[w].test \in CheckoutTests
  /\ \/ proc[w].pc \in {"ps_expect", "ps_compare"}
     \/ proc[w].psCaller = "isPriceCalculationCorrect"
     \/ proc[w].error.at = "expect priceSummary"

C13_subtotalPlusTaxIsTotal ==
  \A w \in Workers :
    C13_summaryRead(w) =>
      LET ps == proc[w].summary IN
      /\ toFixed2(Plus(ps.subtotal, ps.tax)) = toFixed2(ps.total)
      /\ toFixed2(ps.subtotal) = expectedSubtotal(proc[w].added)
      /\ proc[w].correct # "false"

\* a checkout of three products driven to the complete screen: the summary read
\* on the way summed up, to the cent
C13_witness ==
  \E w \in Workers :
    /\ proc[w].test = "complete3" /\ proc[w].pc = "passed"
    /\ page[w].url = "complete"
    /\ proc[w].indices = <<0, 1, 2>>
    /\ proc[w].summary = [subtotal |-> [mant |-> 5997, scale |-> 2],
                           tax |-> [mant |-> 480, scale |-> 2],
                           total |-> [mant |-> 6477, scale |-> 2]]
    /\ proc[w].correct = "true"

\* C14: what a test reads on the cart screen and on the overview, after its
\* addRandomProductsToCart from an empty cart, is one entry per selected product:
\* as many entries as it selected, every selected name among them.  From the
\* click on the cart link to the overview no step adds or removes an item.
C14_NavigationSteps ==
  {"t_goToCart", "t_cartItems", "t_proceedToCheckout", "t_waitForPageLoad",
   "s1_firstName", "s1_lastName", "s1_postalCode", "s1_continue", "t_orderItems"}

C14_listsSelection(w, seen) ==
  seen.count # -1 =>
    /\ seen.count = proc[w].count
    /\ Len(seen.names) = proc[w].count
    /\ \A x \in DOMAIN proc[w].indices :
         \E y \in DOMAIN seen.names : seen.names[y] = ProductName(proc[w].indices[x])

C14_itemsPreserved ==
  /\ [](\A w \in Workers :
          /\ C14_listsSelection(w, proc[w].seenCart)
          /\ C14_listsSelection(w, proc[w].seenOrder))
  /\ [][(\E w \in Workers : proc[w].pc \in C14_NavigationSteps) => cart' = cart]_vars

\* three products selected, then listed on the cart screen and on the overview
C14_witness ==
  \E w \in Workers :
    /\ proc[w].test = "consistency" /\ proc[w].pc = "passed"
    /\ proc[w].indices = <<3, 0, 2>>
    /\ proc[w].seenCart.count = 3 /\ proc[w].seenOrder.count = 3
    /\ proc[w].seenOrder.names = <<ProductName(3), ProductName(0), ProductName(2)>>
    /\ page[w].url = "step2" /\ cart = <<3, 0, 2>>

\* C15: the test 'should complete full checkout process with 3 random products',
\* started with an empty cart in a shop of at least three products, comes to an
\* end; it fails only where the engine timed out on an element that was there,
\* and otherwise ends on the checkout-complete screen, having read a header that
\* contains 'Thank you for your order' and found the pony-express image visible.
\* A page gets to the complete screen only from step two, and to step two only
\* from step one.
C15_inScenario(w) ==
  /\ proc[w].test = "complete3" /\ proc[w].phase = "test"
  /\ proc[w].count = itemCountToSelect /\ nProducts >= itemCountToSelect
  /\ proc[w].error.at \notin EnabledProbes

C15_confirmed(w) ==
  /\ page[w].url = "complete"
  /\ \E x \in DOMAIN log[w].asserted :
       /\ log[w].asserted[x].op = "getCompleteHeader" /\ log[w].asserted[x].consumed
       /\ IsInfix(<<"Thank you for your order">>, CompleteHeaderText(w))
  /\ \E x \in DOMAIN log[w].asserted :
       /\ log[w].asserted[x].op = "isPonyExpressImageVisible"
       /\ isPonyExpressImageVisible(w) = "true"

C15_scenarioEndsOnComplete ==
  /\ [](\A w \in Workers :
          C15_inScenario(w) =>
            /\ proc[w].pc = "failed" => log[w].faulted
            /\ proc[w].pc = "passed" => C15_confirmed(w))
  /\ [][\A w \in Workers :
          /\ (page'[w].url = "complete" /\ page[w].url # "complete") => page[w].url = "step2"
          /\ (page'[w].url = "step2" /\ page[w].url # "step2") => page[w].url = "step1"]_vars
  /\ \A w \in Workers :
       (C15_inScenario(w) /\ proc[w].pc = "test")
         ~> (proc[w].pc \in {"passed", "failed"})

\* the scenario passed on the complete screen after the last of its confirmations
C15_witness ==
  \E w \in Workers :
    /\ C15_inScenario(w) /\ proc[w].pc = "passed"
    /\ C15_confirmed(w) /\ Last(log[w].asserted).op = "isCheckoutSuccessful"
    /\ cart = <<>> /\ Len(proc[w].added) = itemCountToSelect

\* C16: the test that logs in as standard_user / secret_sauce comes to an end;
\* it fails only where the engine timed out on an element that was there, and
\* otherwise it has waited for the inventory URL, is on the inventory screen,
\* and the heading it read there is exactly "Products".
C16_validLoginLandsOnInventory ==
  /\ [](\A w \in Workers :
          proc[w].test = "valid_login" =>
            /\ proc[w].pc = "failed" => log[w].faulted
            /\ proc[w].pc \in {"lg_call", "lg_expect", "passed"} => page[w].url = "inventory"
            /\ proc[w].pc = "passed" => proc[w].received.text = <<"Products">>)
  /\ \A w \in Workers :
       (proc[w].test = "valid_login" /\ proc[w].pc = "lg_username")
         ~> \/ proc[w].pc = "passed" /\ UrlOf(page[w].url) = BaseURL \o <<"inventory.html">>
            \/ log[w].faulted

\* logged in, redirected, the heading read
C16_witness ==
  \E w \in Workers :
    /\ proc[w].test = "valid_login" /\ proc[w].pc = "passed"
    /\ page[w].url = "inventory"
    /\ log[w].composite = "login" /\ log[w].outcome = "returned"
    /\ proc[w].received.text = <<"Products">>
    /\ Len(log[w].asserted) = 2

\* C17: a login attempt with any invalid combination (those of the fixture data
\* and those the negative tests type) never gets to the inventory screen; once
\* the login button was clicked the error container is shown and its text
\* contains the message expected for the combination; the attempt fails only
\* where the engine timed out on an element that was there.
C17_expectedError(test) ==
  IF test \in FixtureAttempts THEN INVALID_CREDENTIALS[test].expectedError
  ELSE Script(test)[2].expected

C17_invalidLoginShowsError ==
  \A w \in Workers :
    proc[w].test \in NegativeLoginTests \cup FixtureAttempts =>
      /\ ~IsInfix(<<"inventory.html">>, UrlOf(page[w].url))
      /\ proc[w].pc \in {"lg_call", "lg_expect", "passed"} =>
           /\ isErrorMessageDisplayed(w) = "true"
           /\ IsInfix(C17_expectedError(proc[w].test), page[w].error)
      /\ proc[w].pc = "failed" => log[w].faulted

\* both fields empty: the username's message, the three checks passed
C17_witness ==
  \E w \in Workers :
    /\ proc[w].test = "BOTH_EMPTY" /\ proc[w].pc = "passed"
    /\ page[w].url = "login" /\ page[w].username = "" /\ page[w].password = ""
    /\ page[w].error = <<"Epic sadface:", "Username is required">>
    /\ Len(log[w].asserted) = 3

\* C18: the setup writes the storage state only from the step that follows its
\* wait for the inventory URL, with the page on the inventory screen; what is
\* written is the state of a logged-in session; and a setup that failed, the
\* login not having reached the inventory, has written nothing.
C18_storedSessionIsAuthenticated ==
  /\ [](authFile.written => authFile.authenticated)
  /\ [](\A w \in Workers :
          (proc[w].test \in SetupRuns /\ proc[w].pc = "failed") => ~authFile.written)
  /\ [][authFile' # authFile =>
          \E w \in Workers :
            /\ proc[w].test \in SetupRuns /\ proc[w].pc = "su_storageState"
            /\ IsInfix(<<"inventory.html">>, UrlOf(page[w].url))]_vars

\* the setup passed and its file holds a logged-in session
C18_witness ==
  \E w \in Workers :
    /\ proc[w].test = "authenticate" /\ proc[w].pc = "passed"
    /\ authFile = [written |-> TRUE, authenticated |-> TRUE]
    /\ page[w].url = "inventory"

\* the shop rejected the login: the wait timed out and no file was written
C18_witnessRejected ==
  \E w \in Workers :
    /\ proc[w].test = "authenticate_rejected" /\ proc[w].pc = "failed"
    /\ proc[w].error = [kind |-> "TimeoutError", at |-> "waitForURL"]
    /\ page[w].url = "login" /\ page[w].error # <<>>
    /\ ~authFile.written

\* C19: a pending wait-for-navigation call has waited 10 seconds at most, and
\* once 10 seconds have passed without the URL matching it does nothing but
\* fail.
C19_waitsBoundedByTenSeconds ==
  /\ [](\A w \in Workers : proc[w].pc = "waitForURL" => proc[w].elapsed <= 10000)
  /\ [][\A w \in Workers :
          (proc[w].pc = "waitForURL" /\ proc[w].elapsed >= 10000
             /\ page[w].url # WaitTarget(proc[w].test) /\ page' = page
             /\ proc'[w] # proc[w]) => proc'[w].pc = "failed"]_vars

\* the wait of LoginPage is pending after more than 10 seconds
C19_witness ==
  \E w \in Workers :
    /\ proc[w].pc = "waitForURL" /\ proc[w].test = "LoginPage.waitForInventoryPage"
    /\ proc[w].timeout = NoTimeout /\ proc[w].elapsed = 11000
    /\ page[w].url = "login"

\* C20: the PageManager of a running checkout test has six page objects, one of
\* each class, every one bound to the page handle the constructor was given,
\* which is the page of the test; and from its construction to the end of the
\* test no step changes it.
C20_PageObjects(pm) ==
  {pm.loginPage, pm.inventoryPage, pm.cartPage, pm.checkoutStepOnePage,
   pm.checkoutStepTwoPage, pm.checkoutCompletePage}

C20_onePageObjectPerClassOnOneHandle ==
  /\ [](\A w \in Workers :
          proc[w].pm # NoPageManager =>
            /\ proc[w].pm.page = w
            /\ {o.class : o \in C20_PageObjects(proc[w].pm)} =
                 {"LoginPage", "InventoryPage", "CartPage", "CheckoutStepOnePage",
                  "CheckoutStepTwoPage", "CheckoutCompletePage"}
            /\ \A o \in C20_PageObjects(proc[w].pm) : o.page = proc[w].pm.page)
  /\ [][\A w \in Workers :
          (proc[w].pm # NoPageManager /\ proc'[w].pc # "idle") => proc'[w].pm = proc[w].pm]_vars

\* the six page objects of a test that has got to the overview
C20_witness ==
  \E w \in Workers :
    /\ proc[w].pc = "t_clickFinish" /\ page[w].url = "step2"
    /\ Cardinality(C20_PageObjects(proc[w].pm)) = 6
    /\ proc[w].pm.checkoutStepTwoPage = NewPageObject("CheckoutStepTwoPage", w)

\* ---------------------------------------------------------------------- C21
\* C21: no page-object operation changes the page object itself.  While a test
\* runs, the PageManager it built and each of its page objects keep the page
\* handle and the locators set at construction, whatever operation is called
\* and whether it returns or throws; the objects go only when the test ends.
C21_asConstructed(o, handle) ==
  /\ o.page = handle
  /\ o.locators = Locators(o.class)

C21_pageObjectsAreNeverChanged ==
  /\ [](\A w \in Workers :
          proc[w].pm # NoPageManager =>
            /\ C21_asConstructed(proc[w].pm.inventoryPage, w)
            /\ C21_asConstructed(proc[w].pm.cartPage, w)
            /\ C21_asConstructed(proc[w].pm.loginPage, w)
            /\ C21_asConstructed(proc[w].pm.checkoutStepOnePage, w)
            /\ C21_asConstructed(proc[w].pm.checkoutStepTwoPage, w)
            /\ C21_asConstructed(proc[w].pm.checkoutCompletePage, w))
  /\ [][\A w \in Workers :
          proc[w].pm # NoPageManager =>
            \/ proc'[w].pm = proc[w].pm
            \/ proc'[w].pc = "idle"]_vars

\* operations of the inventory, cart, step-one, step-two and complete page
\* objects have run, one of them has thrown, and the objects are as constructed
C21_witness ==
  \E w \in Workers :
    /\ proc[w].pc = "failed"
    /\ proc[w].error.at = "clickFinish"
    /\ proc[w].pm = PageManager(w)
    /\ proc[w].pm.cartPage.locators.cartItems = ".cart_item"

\* ---------------------------------------------------------------------- C22
\* C22: getRandomValidUser always returns a defined user record, one with a
\* username and a password, taken from the users the fixture defines; no draw
\* returns undefined.
C22_randomValidUserIsDefined ==
  fixture.helper = "getRandomValidUser" =>
    /\ fixture.returned # undefined
    /\ {"username", "password"} \subseteq DOMAIN fixture.returned
    /\ \E key \in DOMAIN TEST_USERS : fixture.returned = TEST_USERS[key]

\* the draw of index 1 reads TEST_USERS.PROBLEM, which the fixture does not define
C22_witness ==
  /\ fixture.helper = "getRandomValidUser"
  /\ fixture.draws = <<1>>
  /\ fixture.returned = undefined

\* ---------------------------------------------------------------------- C23
\* the loop of generateRandomUniqueIndices(max, count) is running / has returned
C23_looping(w) == proc[w].pc = "arp_generate"

C23_returned(w) == proc[w].pc = "arp_loop"

C23_duplicateFree(indices) ==
  \A x, y \in DOMAIN indices : indices[x] = indices[y] => x = y

\* what holds of every call: with 0 <= count <= max the list is duplicate-free
\* and within 0..max-1 at every step and the call returns count indices once the
\* draws are fair, and addRandomProductsToCart calls only with count <= max
C23_withEnoughIndices ==
  /\ [](\A w \in Workers :
          ((C23_looping(w) \/ C23_returned(w)) /\ proc[w].count <= proc[w].totalProducts) =>
            /\ C23_duplicateFree(proc[w].indices)
            /\ Range(proc[w].indices) \subseteq 0..(proc[w].totalProducts - 1)
            /\ Len(proc[w].indices) <= proc[w].count)
  /\ \A w \in Workers :
       (C23_looping(w) /\ proc[w].count <= proc[w].totalProducts)
         ~> (C23_returned(w) /\ Len(proc[w].indices) = proc[w].count)
  /\ [](\A w \in Workers :
          (C23_looping(w) /\ log[w].composite = "addRandomProductsToCart") =>
            proc[w].count <= proc[w].totalProducts)

C23_witness ==
  \E w \in Workers :
    /\ C23_returned(w)
    /\ log[w].drawn
    /\ log[w].composite = "addRandomProductsToCart"
    /\ proc[w].count = 3 /\ proc[w].totalProducts = 3
    /\ Len(proc[w].indices) = 3

C23_witnessLoopingForever ==
  \E w \in Workers :
    /\ C23_looping(w)
    /\ proc[w].count > proc[w].totalProducts
    /\ proc[w].totalProducts = 3
    /\ Len(proc[w].indices) = 3

\* ---------------------------------------------------------------------- C24
\* the remove clicks clearCart has made
C24_clicks(w) == SelectSeq(log[w].events, LAMBDA e : e.op = "remove")

\* the reads of the item count clearCart has made
C24_reads(w) == SelectSeq(log[w].steps, LAMBDA at : at = "getCartItemCount")

\* C24: CartPage.clearCart started with n items in the cart, every remove click
\* removing exactly one item, terminates after exactly n remove clicks, each on
\* the item at position 0 and each followed by a new read of the item count,
\* and leaves the cart empty; with n = 0 it makes no click.
C24_clearCartEmptiesInNClicks ==
  /\ [](\A w \in Workers :
          log[w].composite = "clearCart" =>
            /\ \A x \in DOMAIN C24_clicks(w) :
                 /\ C24_clicks(w)[x].index = 0
                 /\ C24_clicks(w)[x].product = log[w].cartAtCall[x]
            /\ Len(cart) + Len(C24_clicks(w)) = Len(log[w].cartAtCall)
            /\ proc[w].pc = "cc_while" => Len(C24_reads(w)) = Len(C24_clicks(w)) + 1
            /\ proc[w].pc = "cc_returned" =>
                 /\ cart = <<>>
                 /\ Len(C24_clicks(w)) = Len(log[w].cartAtCall)
                 /\ Len(C24_reads(w)) = Len(C24_clicks(w)) + 1)
  /\ \A w \in Workers :
       (log[w].composite = "clearCart" /\ proc[w].pc = "cc_getCartItemCount")
         ~> (proc[w].pc = "cc_returned" \/ log[w].faulted)

\* clearCart has returned after three clicks; and a call with an empty cart
\* has returned without any
C24_witness ==
  \E w \in Workers :
    /\ proc[w].pc = "cc_returned"
    /\ Len(log[w].cartAtCall) = 3
    /\ Len(C24_clicks(w)) = 3
    /\ cart = <<>>

C24_witnessEmpty ==
  \E w \in Workers :
    /\ proc[w].pc = "cc_returned"
    /\ log[w].cartAtCall = <<>>
    /\ log[w].events = <<>>

C26_titleAsserted(w) ==
  /\ proc[w].test = "page_title"
  /\ proc[w].pc = "passed"
  /\ \E k \in DOMAIN log[w].asserted : log[w].asserted[k].line = 76

\* C26: the login-page title check compares the title of the page loaded in
\* the browser with "Swag Labs": 'should have correct page title' does not pass
\* while the loaded page's title is anything other than "Swag Labs".
C26_titleCheckFailsOnAnotherTitle ==
  \A w \in workers : C26_titleAsserted(w) => DocumentTitle(w) = "Swag Labs"

\* the test has passed on a login page whose document is titled otherwise
C26_witness ==
  \E w \in workers :
    /\ C26_titleAsserted(w)
    /\ page[w].url = "login"
    /\ DocumentTitle(w) = "Sauce Labs"
    /\ proc[w].received.text = <<"Swag Labs">>

\* ---------------------------------------------------------------------- C27
\* the login attempt of the invalid-username test was made and rejected
C27_rejected(w) ==
  /\ proc[w].test = "invalid_username"
  /\ log[w].composite = "login"
  /\ log[w].outcome = "returned"
  /\ page[w].error # <<>>

\* C27: the invalid-username test verifies that the user remains on the login
\* page: it does not pass when, after the rejected login attempt, the
\* browser's current URL contains inventory.html.
C27_invalidUsernameFailsOffLoginPage ==
  \A w \in workers :
    C27_rejected(w) /\ IsInfix(<<"inventory.html">>, UrlOf(page[w].url))
      => proc[w].pc # "passed"

\* the test has passed, its five assertions made, on a URL that contains
\* inventory.html
C27_witness ==
  \E w \in workers :
    /\ C27_rejected(w)
    /\ proc[w].pc = "passed"
    /\ Len(log[w].asserted) = Len(InvalidUsernameScript)
    /\ ~log[w].asserted[4].consumed
    /\ IsInfix(<<"inventory.html">>, UrlOf(page[w].url))

\* ---------------------------------------------------------------------- C30
\* the outcome of the login attempt can be observed: the error container is
\* shown, or the browser is on the inventory
C30_outcomeObservable(w) == ErrorContainerCount(w) > 0 \/ page[w].url = "inventory"

C30_witnessRejected ==
  \E w \in workers :
    /\ proc[w].test = "whitespace"
    /\ proc[w].pc = "passed"
    /\ ~shop.trims /\ shop.rejectsTo = "login"
    /\ ErrorContainerCount(w) > 0
    /\ log[w].asserted[1].line = 304

\* ---------------------------------------------------------------------- C28
\* an amount in thousandths, in cents rounded to the nearest
C28_cents(thousandths) == (thousandths + 5) \div 10

\* isPriceCalculationCorrect has answered on the labels the page shows
C28_answered(w) ==
  /\ proc[w].test = "summary"
  /\ proc[w].correct # "none"

\* C28: isPriceCalculationCorrect returns true exactly when the subtotal plus
\* the tax read from the labels equals the total read, at two decimals; when
\* none of the three labels contains a currency amount the summary read is
\* {0, 0, 0} and it returns true.
C28_trueExactlyWhenSumIsTotal ==
  \A w \in workers :
    C28_answered(w) =>
      LET l == page[w].labels IN
      /\ proc[w].correct = "true" <=>
           C28_cents(AmountShown(l.subtotal) + AmountShown(l.tax))
             = C28_cents(AmountShown(l.total))
      /\ (\A f \in {"subtotal", "tax", "total"} : MatchAmount(l[f]) = <<>>) =>
           /\ proc[w].summary = [subtotal |-> Zero, tax |-> Zero, total |-> Zero]
           /\ proc[w].correct = "true"

\* it has answered true on 1.2 + 0.104 against 1.30, equal at two decimals only
C28_witness ==
  \E w \in workers :
    /\ C28_answered(w)
    /\ page[w].labels = [subtotal |-> <<"$", "1", ".", "2">>,
                          tax |-> <<"$", "0", ".", "1", "0", "4">>,
                          total |-> <<"$", "1", ".", "3", "0">>]
    /\ proc[w].correct = "true"

\* it has answered true on three labels without an amount
C28_witnessNoAmount ==
  \E w \in workers :
    /\ C28_answered(w)
    /\ page[w].labels = [subtotal |-> <<>>, tax |-> <<"T", "a", "x", ":", " ", "$">>,
                          total |-> <<"1", "7">>]
    /\ proc[w].summary = NoSummary
    /\ proc[w].correct = "true"

\* it has answered false
C28_witnessFalse ==
  \E w \in workers :
    /\ C28_answered(w)
    /\ proc[w].correct = "false"

\* ---------------------------------------------------------------------- C29
\* the cart without the entries of product p, the others as they were
C29_without(items, p) == SelectSeq(items, LAMBDA q : q # p)

\* C29: add and remove-by-name build their selectors from the name in the same
\* way: on the cart screen the selector removeItemByName builds from the name
\* of a product that addProductToCartByIndex has added resolves to that
\* product's remove button and no other; once removeItemByName(N) has returned
\* the entry of N is gone, every other entry is where it was, and
\* isItemInCart(N) answers false.
C29_removeByNameTakesOutThatItem ==
  \A w \in workers :
    proc[w].test = "removeByName" =>
      /\ proc[w].pc = "rn_removeItemByName" =>
           \A x \in DOMAIN proc[w].added :
             /\ AddSelector(proc[w].added[x].name) = AddButtonAttr(cart[x])
             /\ RemoveButtonMatches(w, RemoveSelector(proc[w].added[x].name)) = {cart[x]}
      /\ proc[w].pc \in {"rn_isItemInCart", "passed"} =>
           \E x \in DOMAIN log[w].cartAtCall :
             /\ ProductName(log[w].cartAtCall[x]) = proc[w].details.name
             /\ cart = C29_without(log[w].cartAtCall, log[w].cartAtCall[x])
             /\ Len(cart) = Len(log[w].cartAtCall) - 1
             /\ ~isItemInCart(w, proc[w].details.name)
      /\ proc[w].pc = "passed" => proc[w].received.bool = FALSE
      /\ proc[w].pc = "failed" /\ log[w].composite = "removeItemByName" =>
           log[w].faulted /\ cart = log[w].cartAtCall

\* of three products added, the second was removed by its name: the first and
\* the third are left, in that order
C29_witness ==
  \E w \in workers :
    /\ proc[w].test = "removeByName"
    /\ proc[w].pc = "passed"
    /\ log[w].cartAtCall = <<2, 0, 3>>
    /\ proc[w].details.name = ProductName(0)
    /\ cart = <<2, 3>>
    /\ proc[w].received.bool = FALSE

====
